---- MODULE Spec2Model ----
(***************************************************************************)
(* Risk-detection and scoring engine of ProtectYaNeck                      *)
(* (src/src/content/LawyerModal.ts, lines 1170-1508: the analyzer module;  *)
(* src/src/services/llm-analyzer.ts, lines 529-716: the shared constants). *)
(*                                                                         *)
(* Strings are JavaScript strings: indices in values are 0-based as in the *)
(* source, and the helpers below translate to the 1-based Sequences        *)
(* operators.  Two characters stand for non-ASCII code units that cannot   *)
(* be written in a TLA+ string: "#" is U+0130 (capital I with dot above),  *)
(* whose lower case is the two code units "i" U+0307, and "~" is U+0307.   *)
(***************************************************************************)
EXTENDS Integers, Sequences, FiniteSets, TLC

VARIABLES
    pc,        \* position of the caller: which inputs are being built / which call returned
    text,      \* the page text handed to the analyzer
    frags,     \* number of fragments the text was assembled from
    now,       \* Date.now() at the time of the call
    risks,     \* RiskItem[]: the finding list (analyzeRisks' result or a caller's list)
    result,    \* the record returned by analyzeRisksEnhanced, or NoResult
    score,     \* the number handed to / returned by the scorer
    industry,  \* the industry segment handed to compareToAverage
    overall,   \* calculateOverallSeverity's result
    warnings,  \* detectDangerousCombinations' result
    comparison, \* compareToAverage's result, or NoResult
    flags,     \* detectRedFlags' result
    previous,  \* the record an earlier invocation on the same text returned, or NoResult
    storedKey, \* chrome.storage.local: the value under pyn_openai_key, "" when absent
    apiKey,    \* analyzeRisksWithLLM's local apiKey
    response,  \* what the cloud endpoint answered to the fetch of analyzeWithLLM
    returned,  \* the RiskItem[] that analyzeRisksWithLLM resolved with
    usage,     \* chrome.storage.local: the UsageData under STORAGE_KEYS.USAGE
    scanPc,    \* per scanPage invocation: the await it is suspended at
    held,      \* per scanPage invocation: the usage read by incrementUsage, not yet written
    outcome,   \* per scanPage invocation: what the last scanPage call resolved with
    got,       \* the last getUsage call since the clock moved: caller, result, whether it wrote
    advances,  \* number of times the clock was advanced
    granted,   \* scans let through the quota check (each returns a ScanResult) since the last reset
    settings,       \* chrome.storage.local: analyticsSettings
    localEvents,    \* chrome.storage.local: analyticsEvents
    tracked,        \* number of trackEvent calls made
    tracker,        \* the trackEvent invocation: the await it is suspended at, its settings and event
    inbox,          \* QUEUE_ANALYTICS_EVENT messages on their way to the background
    analyticsQueue, \* the background's analyticsQueue
    flusher,        \* per flushAnalyticsQueue invocation: its await, the setting it read, eventsToSend
    updater,        \* the updateAnalyticsSettings invocation: its await, its argument, the settings it read
    sent,           \* the events posted to /api/analytics/events, each with the stored setting then
    userSettings,   \* chrome.storage.local: settings
    script,         \* per tab, the content script: init's position and settings, listener, timer
    scanHistory,    \* chrome.storage.local: scanHistory, as the scans' numbers
    completed,      \* number of SCAN_COMPLETE messages received
    completer,      \* per handleScanComplete invocation: its await, its result, the history it read
    badge,          \* the scan whose risk count the action badge shows
    isEnabled,      \* the interceptor's state.isEnabled
    userEnabled,    \* the last argument of setInterceptorEnabled (true before any call)
    timers,         \* pending re-enable timeouts of triggerOriginalAction
    clicks,         \* the user's clicks on agreement triggers, each with what became of it
    users,          \* the backend's db.data.users, by user id
    subscriptions,  \* the backend's db.data.subscriptions, in insertion order
    epoch,          \* the backend's clock, Math.floor(Date.now() / 1000)
    verified        \* the last answer of POST /api/subscription/verify

\* Variables of the callers of the analyzer beyond the first eleven.
callVars == <<flags, previous>>

\* Variables of the cloud analysis.
llmVars == <<storedKey, apiKey, response, returned>>

\* Variables that the analyzer's callers of Spec, SpecFindings and SpecCompare leave alone.
\* Variables of the usage quota.
usageVars == <<usage, scanPc, held, outcome, got, advances, granted>>

\* Variables of the analytics service.
analyticsVars ==
    <<settings, localEvents, tracked, tracker, inbox, analyticsQueue, flusher, updater, sent>>

\* Variables of the content script's initialisation.
contentVars == <<userSettings, script>>

\* Variables of the background's scan history.
historyVars == <<scanHistory, completed, completer, badge>>

\* Variables of the click interceptor.
interceptVars == <<isEnabled, userEnabled, timers, clicks>>
backendVars == <<users, subscriptions, epoch, verified>>

serviceVars == <<llmVars, usageVars, analyticsVars, contentVars, historyVars, interceptVars, backendVars>>
extVars == <<callVars, serviceVars>>

\* The analyzer's variables apart from the caller's position.
analysisVars == <<text, frags, now, risks, result, score, industry, overall, warnings, comparison>>

vars == <<pc, text, frags, now, risks, result, score, industry, overall, warnings, comparison,
          extVars>>

NoResult == [none |-> TRUE]

\* The values of extVars while the subsystems they belong to have not run.
IdleCalls == flags = <<>> /\ previous = NoResult

\* No fetch was made: a response that is never read.
NoResponse == [fetch |-> "none", ok |-> FALSE, json |-> "none", choices |-> "none", content |-> ""]

IdleLLM == storedKey = "" /\ apiKey = "" /\ response = NoResponse /\ returned = <<>>

\* The scanPage invocations that can be in flight at once (two tabs, or two
\* SCAN_PAGE messages to one tab).
Tabs == {"tab1", "tab2"}

Usage(n, start, tier, key) ==
    [scansThisMonth |-> n, monthStart |-> start, tier |-> tier, licenseKey |-> key]

\* DEFAULT_USAGE, stored on install; licenseKey "" stands for an absent key.
DEFAULT_USAGE == Usage(0, 0, "free", "")

NoCall == [by |-> "none", returned |-> DEFAULT_USAGE, wrote |-> FALSE]

IdleUsage ==
    /\ usage = DEFAULT_USAGE
    /\ scanPc = [p \in Tabs |-> "idle"]
    /\ held = [p \in Tabs |-> DEFAULT_USAGE]
    /\ outcome = [p \in Tabs |-> "none"]
    /\ got = NoCall
    /\ advances = 0
    /\ granted = 0

\* The flushAnalyticsQueue invocations that can be in flight at once (the alarm
\* fires every minute, whether or not the last request was answered).
Flushers == {"flush1", "flush2"}

\* getAnalyticsSettings' default: enabled, with a first session id.
DefaultAnalyticsSettings == [enabled |-> TRUE, sessionId |-> 1]

\* An event's metadata: absent, or the entries of the object in insertion
\* order, each value with its typeof and its string form.
NoMetadata == [defined |-> FALSE, entries |-> <<>>]

NoEvent == [id |-> 0, sessionId |-> 0, metadata |-> NoMetadata]

IdleTracker == [pc |-> "idle", settings |-> DefaultAnalyticsSettings, event |-> NoEvent]
IdleFlusher == [pc |-> "idle", enabled |-> FALSE, eventsToSend |-> <<>>]
IdleUpdater == [pc |-> "idle", enabled |-> FALSE, settings |-> DefaultAnalyticsSettings]

IdleAnalytics ==
    /\ settings = DefaultAnalyticsSettings
    /\ localEvents = <<>>
    /\ tracked = 0
    /\ tracker = IdleTracker
    /\ inbox = <<>>
    /\ analyticsQueue = <<>>
    /\ flusher = [f \in Flushers |-> IdleFlusher]
    /\ updater = IdleUpdater
    /\ sent = {}

Settings(enabled, autoScan, whitelist) ==
    [enabled |-> enabled, autoScan |-> autoScan, whitelist |-> whitelist]

DEFAULT_SETTINGS == Settings(TRUE, TRUE, {})

\* window.location.hostname of the page in each tab.
Hostname == [p \in Tabs |-> IF p = "tab1" THEN "a.io" ELSE "b.io"]

\* A content script whose init ran with the default settings and whose
\* auto-scan timer has fired without a detection.
ReadyScript ==
    [pc |-> "ready", settings |-> DEFAULT_SETTINGS, listening |-> TRUE,
     timer |-> FALSE, notified |-> FALSE]

IdleContent ==
    /\ userSettings = DEFAULT_SETTINGS
    /\ script = [p \in Tabs |-> ReadyScript]

\* The handleScanComplete invocations that can be in flight at once.
Handlers == {"handler1", "handler2"}

IdleHandler == [pc |-> "idle", result |-> 0, history |-> <<>>]

IdleHistory ==
    /\ scanHistory = <<>>
    /\ completed = 0
    /\ completer = [h \in Handlers |-> IdleHandler]
    /\ badge = 0

IdleIntercept ==
    /\ isEnabled = TRUE
    /\ userEnabled = TRUE
    /\ timers = 0
    /\ clicks = <<>>

\* The backend's registered users; licenseKey 0 stands for an absent key. The
\* answers of verify are told apart by the parity of the request's number.
UserIds == {"u1", "u2"}
User(tier, licenseKey) == [tier |-> tier, licenseKey |-> licenseKey]
NoVerify == [request |-> 0, licenseKey |-> 0, status |-> 0, valid |-> FALSE, error |-> ""]

IdleBackend ==
    /\ users = [u \in UserIds |-> User("free", 0)]
    /\ subscriptions = <<>>
    /\ epoch = 0
    /\ verified = NoVerify

IdleExt == IdleCalls /\ IdleLLM /\ IdleUsage /\ IdleAnalytics /\ IdleContent /\ IdleHistory /\ IdleIntercept /\ IdleBackend

(***************************************************************************)
(* Bounds of the model.                                                    *)
(***************************************************************************)
MaxFrags == 2      \* fragments per page text
MaxFindings == 2   \* length of a caller-supplied finding list in arbitrary order

(***************************************************************************)
(* JavaScript string primitives.                                           *)
(***************************************************************************)
Min(a, b) == IF a <= b THEN a ELSE b
Max(a, b) == IF a >= b THEN a ELSE b

UpperAlpha == "ABCDEFGHIJKLMNOPQRSTUVWXYZ"
LowerAlpha == "abcdefghijklmnopqrstuvwxyz"

\* String.prototype.toLowerCase on one code unit.
LowerCaseMap ==
    [c \in {SubSeq(UpperAlpha, i, i) : i \in 1..26} \cup {"#"} |->
        IF c = "#" THEN "i~"
        ELSE LET i == CHOOSE j \in 1..26 : SubSeq(UpperAlpha, j, j) = c
             IN  SubSeq(LowerAlpha, i, i)]

RECURSIVE ToLowerCase(_)
ToLowerCase(s) ==
    IF Len(s) = 0 THEN ""
    ELSE IF Len(s) = 1
         THEN IF s \in DOMAIN LowerCaseMap THEN LowerCaseMap[s] ELSE s
         ELSE LET h == Len(s) \div 2
              IN  ToLowerCase(SubSeq(s, 1, h)) \o ToLowerCase(SubSeq(s, h + 1, Len(s)))

\* String.prototype.indexOf: 0-based index of the first occurrence, or -1.
IndexOf(s, k) ==
    LET hits == {i \in 0..(Len(s) - Len(k)) : SubSeq(s, i + 1, i + Len(k)) = k}
    IN  IF hits = {} THEN -1 ELSE CHOOSE i \in hits : \A j \in hits : i <= j

Includes(s, k) == IndexOf(s, k) # -1

\* String.prototype.substring(start, end): both clamped to [0, length], swapped if needed.
Substring(s, start, end) ==
    LET a == Max(0, Min(start, Len(s)))
        b == Max(0, Min(end, Len(s)))
    IN  SubSeq(s, Min(a, b) + 1, Max(a, b))

WhiteSpace == {" ", "\t", "\n"}

\* String.prototype.trim.
Trim(s) ==
    LET solid == {i \in 1..Len(s) : SubSeq(s, i, i) \notin WhiteSpace}
    IN  IF solid = {} THEN ""
        ELSE SubSeq(s, CHOOSE i \in solid : \A j \in solid : i <= j,
                       CHOOSE i \in solid : \A j \in solid : i >= j)

(***************************************************************************)
(* Static tables (shared/constants).                                       *)
(***************************************************************************)
\* RiskCategory, in the key order of RISK_KEYWORDS (the order of Object.entries).
Categories ==
    << "data_sharing", "auto_renewal", "third_party_access", "liability_waiver",
       "arbitration", "data_retention", "account_termination", "jurisdiction" >>

CategorySet == {Categories[i] : i \in 1..Len(Categories)}

CategoryIndex ==
    [c \in CategorySet |-> CHOOSE i \in 1..Len(Categories) : Categories[i] = c]

Severities == {"low", "medium", "high", "critical"}

RISK_KEYWORDS ==
    [ data_sharing |->
        << "share with third parties", "share your information", "disclose to partners",
           "sell your data", "transfer your information", "share with affiliates",
           "provide to advertisers" >>,
      auto_renewal |->
        << "automatically renew", "auto-renewal", "recurring billing",
           "subscription will renew", "cancel before", "billing cycle",
           "charged automatically" >>,
      third_party_access |->
        << "service providers", "third-party services", "contractors",
           "business partners", "access your information", "share with vendors" >>,
      liability_waiver |->
        << "limitation of liability", "not responsible for", "not liable for",
           "no warranty", "as is", "disclaim all warranties", "use at your own risk" >>,
      arbitration |->
        << "binding arbitration", "waive right to jury", "class action waiver",
           "arbitration agreement", "dispute resolution",
           "waive your right to participate in class action" >>,
      data_retention |->
        << "retain your data", "keep your information", "store indefinitely",
           "retain after termination", "data retention period", "preserve your data" >>,
      account_termination |->
        << "terminate at any time", "suspend your account", "without notice",
           "sole discretion", "terminate without cause", "revoke access" >>,
      jurisdiction |->
        << "governed by the laws of", "exclusive jurisdiction", "venue shall be",
           "subject to the laws", "courts of" >> ]

RISK_CATEGORIES ==
    [ data_sharing        |-> [label |-> "Data Sharing",        defaultSeverity |-> "high"],
      auto_renewal        |-> [label |-> "Auto-Renewal",        defaultSeverity |-> "medium"],
      third_party_access  |-> [label |-> "Third-Party Access",  defaultSeverity |-> "high"],
      liability_waiver    |-> [label |-> "Liability Waiver",    defaultSeverity |-> "high"],
      arbitration         |-> [label |-> "Arbitration Clause",  defaultSeverity |-> "critical"],
      data_retention      |-> [label |-> "Data Retention",      defaultSeverity |-> "medium"],
      account_termination |-> [label |-> "Account Termination", defaultSeverity |-> "medium"],
      jurisdiction        |-> [label |-> "Jurisdiction",        defaultSeverity |-> "low"] ]

\* The alternatives of the two regular expressions of determineSeverity.
UrgencyWords == {"waive", "forfeit", "surrender", "binding", "mandatory", "required"}
BreadthWords == {"sell", "monetize", "indefinitely", "without notice", "any reason"}

ContextRadius == 100

(***************************************************************************)
(* Keyword matcher.                                                        *)
(***************************************************************************)
severityRank(severity) ==
    CASE severity = "low"      -> 1
      [] severity = "medium"   -> 2
      [] severity = "high"     -> 3
      [] severity = "critical" -> 4

\* RegExp.prototype.test for an alternation of literals.
TestAny(words, s) == \E w \in words : Includes(s, w)

determineSeverity(category, context) ==
    LET contextLower == ToLowerCase(context)
    IN  IF /\ TestAny(UrgencyWords, contextLower)
           /\ category \in {"arbitration", "liability_waiver"}
        THEN "critical"
        ELSE IF TestAny(BreadthWords, contextLower)
             THEN "high"
             ELSE RISK_CATEGORIES[category].defaultSeverity

generateSummary(category, context) ==
    CASE category = "data_sharing" ->
           "This service may share your personal information with third parties, partners, or advertisers."
      [] category = "auto_renewal" ->
           "Your subscription will automatically renew and you will be charged unless you cancel before the renewal date."
      [] category = "third_party_access" ->
           "External companies and service providers may have access to your data and account information."
      [] category = "liability_waiver" ->
           "The company limits their responsibility if something goes wrong. You may have limited options for recourse."
      [] category = "arbitration" ->
           "You may be giving up your right to sue in court or join a class action lawsuit. Disputes would be handled through private arbitration."
      [] category = "data_retention" ->
           "Your data may be kept for an extended period, even after you close your account."
      [] category = "account_termination" ->
           "The company can suspend or terminate your account at their discretion, potentially without warning."
      [] category = "jurisdiction" ->
           "Legal matters will be handled according to specific laws and courts, which may not be in your location."

\* Index in the keyword list of the first keyword that occurs in textLower, or 0.
FirstKeyword(keywords, textLower) ==
    LET found == {k \in 1..Len(keywords) : Includes(textLower, ToLowerCase(keywords[k]))}
    IN  IF found = {} THEN 0 ELSE CHOOSE k \in found : \A j \in found : k <= j

\* The RiskItem pushed for one category (the body of the inner loop on a match).
MakeRisk(category, keyword, t, textLower, time) ==
    LET index   == IndexOf(textLower, ToLowerCase(keyword))
        start   == Max(0, index - ContextRadius)
        end     == Min(Len(t), index + Len(keyword) + ContextRadius)
        context == Substring(t, start, end)
    IN  [ id           |-> <<"risk", category, time>>,
          category     |-> category,
          severity     |-> determineSeverity(category, context),
          title        |-> RISK_CATEGORIES[category].label,
          summary      |-> generateSummary(category, context),
          originalText |-> Trim(context),
          location     |-> [startIndex |-> index, endIndex |-> index + Len(keyword)] ]

\* The outer loop over Object.entries(RISK_KEYWORDS): the list before sorting.
RECURSIVE CollectRisks(_, _, _, _, _)
CollectRisks(i, acc, t, textLower, time) ==
    IF i > Len(Categories) THEN acc
    ELSE LET category == Categories[i]
             k        == FirstKeyword(RISK_KEYWORDS[category], textLower)
             existing == \E j \in 1..Len(acc) : acc[j].category = category
         IN  IF k # 0 /\ ~existing
             THEN CollectRisks(i + 1,
                               Append(acc, MakeRisk(category, RISK_KEYWORDS[category][k],
                                                    t, textLower, time)),
                               t, textLower, time)
             ELSE CollectRisks(i + 1, acc, t, textLower, time)

\* Array.prototype.sort with the comparator severityRank(b) - severityRank(a):
\* a stable sort (ES2019; insertion sort for short arrays before), as insertion.
RECURSIVE InsertBySeverity(_, _)
InsertBySeverity(sorted, r) ==
    IF sorted = <<>> THEN <<r>>
    ELSE IF severityRank(r.severity) - severityRank(sorted[Len(sorted)].severity) > 0
         THEN Append(InsertBySeverity(SubSeq(sorted, 1, Len(sorted) - 1), r),
                     sorted[Len(sorted)])
         ELSE Append(sorted, r)

RECURSIVE SortBySeverity(_)
SortBySeverity(list) ==
    IF list = <<>> THEN <<>>
    ELSE InsertBySeverity(SortBySeverity(SubSeq(list, 1, Len(list) - 1)), list[Len(list)])

\* Mutant: the search runs on the text as written, not on its lower case.
analyzeRisks_CaseSensitive(t, time) ==
    SortBySeverity(CollectRisks(1, <<>>, t, t, time))

\* Mutant: a sort that places a finding ahead of earlier findings of equal rank.
RECURSIVE InsertUnstable(_, _)
InsertUnstable(sorted, r) ==
    IF sorted = <<>> THEN <<r>>
    ELSE IF severityRank(r.severity) - severityRank(sorted[Len(sorted)].severity) >= 0
         THEN Append(InsertUnstable(SubSeq(sorted, 1, Len(sorted) - 1), r),
                     sorted[Len(sorted)])
         ELSE Append(sorted, r)

RECURSIVE SortUnstable(_)
SortUnstable(list) ==
    IF list = <<>> THEN <<>>
    ELSE InsertUnstable(SortUnstable(SubSeq(list, 1, Len(list) - 1)), list[Len(list)])

analyzeRisks_UnstableSort(t, time) ==
    SortUnstable(CollectRisks(1, <<>>, t, ToLowerCase(t), time))

analyzeRisks(t, time) ==
    SortBySeverity(CollectRisks(1, <<>>, t, ToLowerCase(t), time))

(***************************************************************************)
(* Severity aggregator, summary, scorer.                                   *)
(***************************************************************************)
RECURSIVE MaxRank(_)
MaxRank(list) ==
    IF Len(list) = 1 THEN severityRank(list[1].severity)
    ELSE Max(severityRank(list[1].severity), MaxRank(Tail(list)))

\* Mutant: the severity of the finding added last.
calculateOverallSeverity_Latest(list) ==
    IF Len(list) = 0 THEN "low" ELSE list[Len(list)].severity

\* Mutant: the first finding's severity, as if the list were always sorted.
calculateOverallSeverity_First(list) ==
    IF Len(list) = 0 THEN "low" ELSE list[1].severity

calculateOverallSeverity(list) ==
    IF Len(list) = 0 THEN "low"
    ELSE LET maxRank == MaxRank(list)
         IN  IF maxRank >= 4 THEN "critical"
             ELSE IF maxRank >= 3 THEN "high"
             ELSE IF maxRank >= 2 THEN "medium"
             ELSE "low"

Digits == "0123456789"

\* Number to string inside a template literal (non-negative integers).
RECURSIVE NumberToString(_)
NumberToString(n) ==
    IF n < 10 THEN SubSeq(Digits, n + 1, n + 1)
    ELSE NumberToString(n \div 10) \o SubSeq(Digits, (n % 10) + 1, (n % 10) + 1)

CountSeverity(list, sev) == Cardinality({i \in 1..Len(list) : list[i].severity = sev})

\* Mutant: no special case for the empty list.
generateOverallSummary_NoEmptyCase(list) ==
    Trim("Found " \o NumberToString(Len(list)) \o " potential risk"
           \o (IF Len(list) = 1 THEN "" ELSE "s") \o ". ")

generateOverallSummary(list) ==
    IF Len(list) = 0 THEN "No significant risks detected in this agreement."
    ELSE LET criticalCount == CountSeverity(list, "critical")
             highCount     == CountSeverity(list, "high")
             found    == "Found " \o NumberToString(Len(list)) \o " potential risk"
                            \o (IF Len(list) = 1 THEN "" ELSE "s") \o ". "
             critical == IF criticalCount > 0
                         THEN NumberToString(criticalCount) \o " critical issue"
                                \o (IF criticalCount = 1 THEN "" ELSE "s") \o " require"
                                \o (IF criticalCount = 1 THEN "s" ELSE "") \o " attention. "
                         ELSE ""
             high     == IF highCount > 0
                         THEN NumberToString(highCount) \o " high-priority concern"
                                \o (IF highCount = 1 THEN "" ELSE "s") \o ". "
                         ELSE ""
         IN  Trim(found \o critical \o high)

DANGEROUS_COMBINATIONS ==
    << [ categories    |-> <<"arbitration", "liability_waiver">>,
         severityBoost |-> 1,
         warning       |-> "Combined arbitration and liability waiver severely limits your legal options" ],
       [ categories    |-> <<"data_sharing", "third_party_access", "data_retention">>,
         severityBoost |-> 1,
         warning       |-> "Your data can be shared widely and kept indefinitely" ],
       [ categories    |-> <<"auto_renewal", "account_termination">>,
         severityBoost |-> 1,
         warning       |-> "They can charge you automatically but terminate you at will" ] >>

RankWeight == 8
BoostWeight == 15
ScoreCap == 100

\* Mutant: some instead of every.
hasAllCategories_Some(combo, list) ==
    \E k \in 1..Len(combo.categories) :
        \E i \in 1..Len(list) : list[i].category = combo.categories[k]

\* Mutant: the findings' categories have to be exactly the rule's categories.
hasAllCategories_Exactly(combo, list) ==
    /\ \A k \in 1..Len(combo.categories) :
           \E i \in 1..Len(list) : list[i].category = combo.categories[k]
    /\ \A i \in 1..Len(list) :
           \E k \in 1..Len(combo.categories) : list[i].category = combo.categories[k]

\* combo.categories.every(c => categories.includes(c)), categories = risks.map(r => r.category)
hasAllCategories(combo, list) ==
    \A k \in 1..Len(combo.categories) :
        \E i \in 1..Len(list) : list[i].category = combo.categories[k]

RECURSIVE BaseScore(_)
BaseScore(list) ==
    IF list = <<>> THEN 0
    ELSE severityRank(Head(list).severity) * RankWeight + BaseScore(Tail(list))

RECURSIVE ComboScore(_, _)
ComboScore(k, list) ==
    IF k > Len(DANGEROUS_COMBINATIONS) THEN 0
    ELSE (IF hasAllCategories(DANGEROUS_COMBINATIONS[k], list)
          THEN DANGEROUS_COMBINATIONS[k].severityBoost * BoostWeight
          ELSE 0) + ComboScore(k + 1, list)

\* Mutant: the sum is returned without the cap.
calculateRiskScore_NoCap(list) ==
    IF Len(list) = 0 THEN 0 ELSE BaseScore(list) + ComboScore(1, list)

calculateRiskScore(list) ==
    IF Len(list) = 0 THEN 0
    ELSE Min(ScoreCap, BaseScore(list) + ComboScore(1, list))

RECURSIVE CollectWarnings(_, _)
CollectWarnings(k, list) ==
    IF k > Len(DANGEROUS_COMBINATIONS) THEN <<>>
    ELSE (IF hasAllCategories(DANGEROUS_COMBINATIONS[k], list)
          THEN <<DANGEROUS_COMBINATIONS[k].warning>>
          ELSE <<>>) \o CollectWarnings(k + 1, list)

\* Mutant: the warning is pushed once for every category of a satisfied rule.
RECURSIVE CollectWarningsPerCategory(_, _)
CollectWarningsPerCategory(k, list) ==
    IF k > Len(DANGEROUS_COMBINATIONS) THEN <<>>
    ELSE (IF hasAllCategories(DANGEROUS_COMBINATIONS[k], list)
          THEN [n \in 1..Len(DANGEROUS_COMBINATIONS[k].categories) |->
                    DANGEROUS_COMBINATIONS[k].warning]
          ELSE <<>>) \o CollectWarningsPerCategory(k + 1, list)

detectDangerousCombinations_PerCategory(list) == CollectWarningsPerCategory(1, list)

detectDangerousCombinations(list) == CollectWarnings(1, list)

(***************************************************************************)
(* Baseline comparator.                                                    *)
(***************************************************************************)
INDUSTRY_AVERAGES ==
    [ social_media |-> 72, ecommerce |-> 58, saas |-> 54, finance |-> 68,
      healthcare |-> 62, default |-> 55 ]

\* Property names every object literal inherits from Object.prototype: a lookup
\* INDUSTRY_AVERAGES[name] yields a function or an object for them, not undefined.
ObjectPrototypeKeys ==
    { "constructor", "toString", "toLocaleString", "valueOf", "hasOwnProperty",
      "isPrototypeOf", "propertyIsEnumerable", "__proto__" }

\* JavaScript values of the lookup and of the arithmetic on it.
Number(n) == [t |-> "number", v |-> n]
NaN == [t |-> "nan", v |-> 0]
Inherited == [t |-> "object", v |-> 0]
Undefined == [t |-> "undefined", v |-> 0]

\* INDUSTRY_AVERAGES[industry]
GetAverage(name) ==
    IF name \in DOMAIN INDUSTRY_AVERAGES THEN Number(INDUSTRY_AVERAGES[name])
    ELSE IF name \in ObjectPrototypeKeys THEN Inherited
    ELSE Undefined

\* ToBoolean, as the || operator applies it.
Truthy(x) == x.t = "object" \/ (x.t = "number" /\ x.v # 0)

\* a - b, a < b, a > b: a function or an object converts to NaN, and every
\* comparison with NaN is false.
Minus(a, b) == IF a.t = "number" /\ b.t = "number" THEN Number(a.v - b.v) ELSE NaN
Less(a, b) == a.t = "number" /\ b.t = "number" /\ a.v < b.v
Greater(a, b) == a.t = "number" /\ b.t = "number" /\ a.v > b.v
Abs(a) == IF a < 0 THEN 0 - a ELSE a

BetterBelow == -15
WorseAbove == 15
MinPercentile == 5
MaxPercentile == 95
MidPercentile == 50
FullPercent == 100

\* Mutant: the percentile of the better branch is not held at the minimum.
compareToAverage_Unclamped(sc, ind) ==
    LET own        == GetAverage(ind)
        average    == IF Truthy(own) THEN own ELSE Number(INDUSTRY_AVERAGES.default)
        difference == Minus(Number(sc), average)
    IN  IF Less(difference, Number(BetterBelow))
        THEN [ comparison |-> "better",
               percentile |-> MidPercentile - Abs(difference.v),
               message    |-> "This agreement is better than 95% of similar services" ]
        ELSE IF Greater(difference, Number(WorseAbove))
        THEN [ comparison |-> "worse",
               percentile |-> MidPercentile + difference.v,
               message    |-> "This agreement is riskier than 95% of similar services" ]
        ELSE [ comparison |-> "average",
               percentile |-> MidPercentile,
               message    |-> "This agreement has typical risk levels for this type of service" ]

compareToAverage(sc, ind) ==
    LET own        == GetAverage(ind)
        average    == IF Truthy(own) THEN own ELSE Number(INDUSTRY_AVERAGES.default)
        difference == Minus(Number(sc), average)
    IN  IF Less(difference, Number(BetterBelow))
        THEN [ comparison |-> "better",
               percentile |-> Max(MinPercentile, MidPercentile - Abs(difference.v)),
               message    |-> "This agreement is better than "
                                \o NumberToString(FullPercent - Max(MinPercentile, MidPercentile - Abs(difference.v)))
                                \o "% of similar services" ]
        ELSE IF Greater(difference, Number(WorseAbove))
        THEN [ comparison |-> "worse",
               percentile |-> Min(MaxPercentile, MidPercentile + difference.v),
               message    |-> "This agreement is riskier than "
                                \o NumberToString(Min(MaxPercentile, MidPercentile + difference.v))
                                \o "% of similar services" ]
        ELSE [ comparison |-> "average",
               percentile |-> MidPercentile,
               message    |-> "This agreement has typical risk levels for this type of service" ]

(***************************************************************************)
(* Red-flag scanner.  A pattern is a sequence of items: a literal (matched *)
(* ignoring ASCII case, the i flag), \s+ (greedy), an optional group or an *)
(* alternation; matching backtracks in the order a JavaScript RegExp does. *)
(***************************************************************************)
Lit(str) == [k |-> "lit", s |-> str]
Ws == [k |-> "ws"]
Opt(items) == [k |-> "opt", p |-> items]
Alt(a, b) == [k |-> "alt", p |-> a, q |-> b]

RED_FLAGS ==
    << <<Lit("waive"), Ws, Opt(<<Lit("your"), Ws>>), Lit("right"), Ws, Lit("to"), Ws,
         Opt(<<Lit("a"), Ws>>), Lit("jury")>>,
       <<Lit("class"), Ws, Lit("action"), Ws, Lit("waiver")>>,
       <<Lit("binding"), Ws, Lit("arbitration")>>,
       <<Lit("sell"), Ws, Opt(<<Lit("your"), Ws>>), Opt(<<Lit("personal"), Ws>>),
         Alt(<<Lit("data")>>, <<Lit("information")>>)>>,
       <<Lit("perpetual"), Ws, Opt(<<Lit("and"), Ws>>), Lit("irrevocable"), Ws, Lit("license")>>,
       <<Lit("without"), Ws, Opt(<<Lit("prior"), Ws>>), Lit("notice")>>,
       <<Lit("sole"), Ws, Opt(<<Lit("and"), Ws, Lit("absolute"), Ws>>), Lit("discretion")>>,
       <<Lit("indemnify"), Ws, Opt(<<Lit("and"), Ws>>), Lit("hold"), Ws, Lit("harmless")>>,
       <<Lit("waive"), Ws, Lit("any"), Ws, Lit("claims")>>,
       <<Lit("no"), Ws, Lit("refund"), Opt(<<Lit("s")>>), Ws,
         Opt(<<Lit("under"), Ws, Lit("any"), Ws, Lit("circumstances")>>)>> >>

\* Canonicalize of the i flag on ASCII letters; other code units are left alone.
RECURSIVE FoldCase(_)
FoldCase(s) ==
    IF Len(s) = 0 THEN ""
    ELSE IF Len(s) = 1
         THEN IF s \in DOMAIN LowerCaseMap /\ s # "#" THEN LowerCaseMap[s] ELSE s
         ELSE LET h == Len(s) \div 2
              IN  FoldCase(SubSeq(s, 1, h)) \o FoldCase(SubSeq(s, h + 1, Len(s)))

\* Length of the run of white space of s that starts at position pos (1-based).
RECURSIVE SpaceRun(_, _)
SpaceRun(s, pos) ==
    IF pos <= Len(s) /\ SubSeq(s, pos, pos) \in WhiteSpace THEN 1 + SpaceRun(s, pos + 1) ELSE 0

\* Position after the match of items at pos, or 0 when items do not match there.
RECURSIVE MatchHere(_, _, _)
MatchHere(items, s, pos) ==
    IF items = <<>> THEN pos
    ELSE LET it   == Head(items)
             rest == Tail(items)
         IN  CASE it.k = "lit" ->
                    IF /\ pos + Len(it.s) - 1 <= Len(s)
                       /\ FoldCase(SubSeq(s, pos, pos + Len(it.s) - 1)) = it.s
                    THEN MatchHere(rest, s, pos + Len(it.s))
                    ELSE 0
               [] it.k = "ws" ->
                    LET ok == {n \in 1..SpaceRun(s, pos) : MatchHere(rest, s, pos + n) # 0}
                    IN  IF ok = {} THEN 0
                        ELSE MatchHere(rest, s, pos + (CHOOSE n \in ok : \A m \in ok : n >= m))
               [] it.k = "opt" ->
                    LET taken == MatchHere(it.p \o rest, s, pos)
                    IN  IF taken # 0 THEN taken ELSE MatchHere(rest, s, pos)
               [] it.k = "alt" ->
                    LET first == MatchHere(it.p \o rest, s, pos)
                    IN  IF first # 0 THEN first ELSE MatchHere(it.q \o rest, s, pos)

\* String.prototype.match without the g flag: <<match[0]>>, or <<>> for null.
MatchPattern(s, pattern) ==
    LET starts == {pos \in 1..(Len(s) + 1) : MatchHere(pattern, s, pos) # 0}
    IN  IF starts = {} THEN <<>>
        ELSE LET pos == CHOOSE p \in starts : \A q \in starts : p <= q
             IN  <<SubSeq(s, pos, MatchHere(pattern, s, pos) - 1)>>

RECURSIVE CollectFlags(_, _)
CollectFlags(k, t) ==
    IF k > Len(RED_FLAGS) THEN <<>>
    ELSE MatchPattern(t, RED_FLAGS[k]) \o CollectFlags(k + 1, t)

\* Mutant: the loop stops at the first pattern that matches.
RECURSIVE CollectFirstFlag(_, _)
CollectFirstFlag(k, t) ==
    IF k > Len(RED_FLAGS) THEN <<>>
    ELSE IF MatchPattern(t, RED_FLAGS[k]) # <<>> THEN MatchPattern(t, RED_FLAGS[k])
         ELSE CollectFirstFlag(k + 1, t)

detectRedFlags_StopAtFirst(t) == CollectFirstFlag(1, t)

detectRedFlags(t) == CollectFlags(1, t)

(***************************************************************************)
(* Enhanced analysis facade.                                               *)
(***************************************************************************)
RedFlagsForCritical == 3
RedFlagsForHigh == 2
HighRank == 3

\* Mutant: the second branch does not look at the rank of the base severity.
BoostSeverity_NoRankCheck(overallSeverity, redFlags) ==
    IF Len(redFlags) >= RedFlagsForCritical /\ overallSeverity # "critical" THEN "critical"
    ELSE IF Len(redFlags) >= RedFlagsForHigh THEN "high"
         ELSE overallSeverity

\* The "boost severity if red flags found" step.
BoostSeverity(overallSeverity, redFlags) ==
    IF Len(redFlags) >= RedFlagsForCritical /\ overallSeverity # "critical" THEN "critical"
    ELSE IF Len(redFlags) >= RedFlagsForHigh /\ severityRank(overallSeverity) < HighRank
         THEN "high"
         ELSE overallSeverity

analyzeRisksEnhanced(t, time) ==
    LET list     == analyzeRisks(t, time)
        sc       == calculateRiskScore(list)
        redFlags == detectRedFlags(t)
    IN  [ risks               |-> list,
          score               |-> sc,
          comparison          |-> compareToAverage(sc, "default"),
          redFlags            |-> redFlags,
          combinationWarnings |-> detectDangerousCombinations(list),
          overallSeverity     |-> BoostSeverity(calculateOverallSeverity(list), redFlags),
          summary             |-> generateOverallSummary(list) ]

(***************************************************************************)
(* Inputs.  A page text is a concatenation of at most MaxFrags fragments.  *)
(* FarClause is 100 neutral characters followed by an urgency word: right  *)
(* after a keyword the word lies outside the context window, right before  *)
(* a keyword inside it.                                                    *)
(***************************************************************************)
Neutral100 ==
    "This page describes the product and how to get help from our team online today or by mail and phone. "

FarClause == Neutral100 \o "This is mandatory. "

Fragments ==
    { "Binding Arbitration applies. ",
      "dispute resolution by mail. ",
      "We may Sell Your Data. ",
      "It has issues. ",
      "auto-renewal applies. ",
      "the courts of Ohio. ",
      "You waive any claims, no refunds apply. ",
      "terminate at any time without prior notice. ",
      "service providers retain your data. ",
      "#",
      FarClause }

\* Industry segments handed to compareToAverage: the table's keys, an unknown
\* name, and names that Object.prototype defines.
Segments == DOMAIN INDUSTRY_AVERAGES \cup {"gaming", "toString", "constructor"}

Finding(c, s) == [category |-> c, severity |-> s]

\* The categories of list are pairwise distinct and in the order of Categories.
InCategoryOrder(list) ==
    \A i \in 1..(Len(list) - 1) :
        CategoryIndex[list[i].category] < CategoryIndex[list[i + 1].category]

(***************************************************************************)
(* Spec: a caller assembles a page text and calls the analyzer.            *)
(***************************************************************************)
Init ==
    /\ pc = "input"
    /\ text = ""
    /\ frags = 0
    /\ now = 0
    /\ risks = <<>>
    /\ result = NoResult
    /\ score = 0
    /\ industry = "default"
    /\ overall = "low"
    /\ warnings = <<>>
    /\ comparison = NoResult
    /\ IdleExt

AppendFragment ==
    /\ pc = "input"
    /\ frags < MaxFrags
    /\ \E f \in Fragments : text' = text \o f
    /\ frags' = frags + 1
    /\ UNCHANGED <<pc, now, risks, result, score, industry, overall, warnings, comparison, extVars>>

CallAnalyzeRisks ==
    /\ pc = "input"
    /\ risks' = analyzeRisks(text, now)
    /\ pc' = "analyzed"
    /\ UNCHANGED <<text, frags, now, result, score, industry, overall, warnings, comparison, extVars>>

CallAnalyzeRisksEnhanced ==
    /\ pc = "input"
    /\ result' = analyzeRisksEnhanced(text, now)
    /\ pc' = "enhanced"
    /\ UNCHANGED <<text, frags, now, risks, score, industry, overall, warnings, comparison, extVars>>

Next == AppendFragment \/ CallAnalyzeRisks \/ CallAnalyzeRisksEnhanced

Spec == Init /\ [][Next]_vars

(***************************************************************************)
(* SpecFindings: a caller hands a finding list (the keyword matcher's or   *)
(* the cloud analyzer's) to the aggregator, the scorer and the combination *)
(* check.  Lists of pairwise distinct categories in category order are     *)
(* built to any length; lists in arbitrary order, with repeated            *)
(* categories, up to MaxFindings.                                          *)
(***************************************************************************)
InitFindings ==
    /\ pc = "list"
    /\ text = ""
    /\ frags = 0
    /\ now = 0
    /\ risks = <<>>
    /\ result = NoResult
    /\ score = 0
    /\ industry = "default"
    /\ overall = "low"
    /\ warnings = <<>>
    /\ comparison = NoResult
    /\ IdleExt

AddFinding ==
    /\ pc = "list"
    /\ LET ordered == InCategoryOrder(risks)
           last    == IF risks = <<>> THEN 0 ELSE CategoryIndex[risks[Len(risks)].category]
       IN  \E c \in CategorySet, s \in Severities :
              /\ \/ Len(risks) < MaxFindings
                 \/ ordered /\ last < CategoryIndex[c]
              /\ risks' = Append(risks, Finding(c, s))
    /\ UNCHANGED <<pc, text, frags, now, result, score, industry, overall, warnings, comparison, extVars>>

CallAggregators ==
    /\ pc = "list"
    /\ score' = calculateRiskScore(risks)
    /\ overall' = calculateOverallSeverity(risks)
    /\ warnings' = detectDangerousCombinations(risks)
    /\ pc' = "scored"
    /\ UNCHANGED <<text, frags, now, risks, result, industry, comparison, extVars>>

NextFindings == AddFinding \/ CallAggregators

SpecFindings == InitFindings /\ [][NextFindings]_vars

(***************************************************************************)
(* SpecCompare: compareToAverage on every score of the scorer's range and  *)
(* every segment.                                                          *)
(***************************************************************************)
InitCompare ==
    /\ pc = "score"
    /\ text = ""
    /\ frags = 0
    /\ now = 0
    /\ risks = <<>>
    /\ result = NoResult
    /\ score \in 0..ScoreCap
    /\ industry \in Segments
    /\ overall = "low"
    /\ warnings = <<>>
    /\ comparison = NoResult
    /\ IdleExt

CallCompareToAverage ==
    /\ pc = "score"
    /\ comparison' = compareToAverage(score, industry)
    /\ pc' = "compared"
    /\ UNCHANGED <<text, frags, now, risks, result, score, industry, overall, warnings, extVars>>

NextCompare == CallCompareToAverage

SpecCompare == InitCompare /\ [][NextCompare]_vars

(***************************************************************************)
(* Properties.                                                             *)
(***************************************************************************)
\* k occurs in s as a substring.
Occurs(k, s) == \E i \in 1..(Len(s) - Len(k) + 1) : SubSeq(s, i, i + Len(k) - 1) = k

\* Some keyword of category c occurs in the lower-cased text.
KeywordOccurs(c, t) ==
    \E k \in 1..Len(RISK_KEYWORDS[c]) : Occurs(ToLowerCase(RISK_KEYWORDS[c][k]), ToLowerCase(t))

HasFinding(list, c) == \E i \in 1..Len(list) : list[i].category = c

\* C1: analyzeRisks returns at most one finding per category, and a finding for
\* category c if and only if a keyword of c occurs in the lower-cased text.
C1_OnePerCategoryIffKeyword ==
    pc = "analyzed" =>
        /\ \A i, j \in 1..Len(risks) : risks[i].category = risks[j].category => i = j
        /\ \A c \in CategorySet : HasFinding(risks, c) <=> KeywordOccurs(c, text)

\* C1 witness: a keyword that occurs only in another letter case is found, a
\* keyword inside a longer word is found, and an absent category has no finding.
C1_Witness ==
    /\ pc = "analyzed"
    /\ Occurs("Binding Arbitration", text)
    /\ Occurs("has issues", text)
    /\ HasFinding(risks, "arbitration")
    /\ HasFinding(risks, "liability_waiver")
    /\ ~HasFinding(risks, "jurisdiction")

\* The context window of a finding, recomputed from its location.
ContextOf(r, t) ==
    Substring(t, Max(0, r.location.startIndex - ContextRadius),
                 Min(Len(t), r.location.endIndex + ContextRadius))

\* The escalation rule as the specification states it.
EscalatedSeverity(c, context) ==
    LET lower == ToLowerCase(context)
        default == RISK_CATEGORIES[c].defaultSeverity
    IN  IF (\E w \in UrgencyWords : Occurs(w, lower)) /\ c \in {"arbitration", "liability_waiver"}
        THEN "critical"
        ELSE IF \E w \in BreadthWords : Occurs(w, lower)
             THEN (IF default = "critical" THEN "critical" ELSE "high")
             ELSE default

\* C2: every finding's severity follows the escalation rule (a breadth match
\* raises to high unless already critical), so it is never lower than the
\* category's default severity.
C2_SeverityEscalationOnly ==
    pc = "analyzed" =>
        \A i \in 1..Len(risks) :
            /\ risks[i].severity = EscalatedSeverity(risks[i].category, ContextOf(risks[i], text))
            /\ severityRank(risks[i].severity)
                 >= severityRank(RISK_CATEGORIES[risks[i].category].defaultSeverity)

\* The categories present in a finding list, as a set.
CategoriesOf(list) == {list[i].category : i \in 1..Len(list)}

\* The rules whose whole category set is contained in the findings' categories.
TriggeredRules(list) ==
    {k \in 1..Len(DANGEROUS_COMBINATIONS) :
        {DANGEROUS_COMBINATIONS[k].categories[n] :
            n \in 1..Len(DANGEROUS_COMBINATIONS[k].categories)} \subseteq CategoriesOf(list)}

\* Sum over the findings of rank(severity), counted per severity.
RankSum(list) ==
    1 * CountSeverity(list, "low") + 2 * CountSeverity(list, "medium")
      + 3 * CountSeverity(list, "high") + 4 * CountSeverity(list, "critical")

\* C3: calculateRiskScore is 0 for the empty list and an integer of 0..100 for
\* every list: sums above 100 saturate at 100.
C3_ScoreClamped ==
    pc = "scored" =>
        /\ score \in 0..100
        /\ (risks = <<>> => score = 0)
        /\ (RankSum(risks) * 8 > 100 => score = 100)

\* C3 witness: all eight categories at critical severity, all three rules
\* triggered, the sum far above 100.
C3_Witness ==
    /\ pc = "scored"
    /\ Len(risks) = 8
    /\ \A i \in 1..8 : risks[i].severity = "critical"
    /\ CategoriesOf(risks) = CategorySet
    /\ Cardinality(TriggeredRules(risks)) = 3
    /\ score = 100

\* C4: for a non-empty list the score is min(100, sum of rank * 8 + 15 per
\* triggered rule), the rules stacking additively.
C4_ScoreFormula ==
    (pc = "scored" /\ risks # <<>>) =>
        LET raw == RankSum(risks) * 8 + 15 * Cardinality(TriggeredRules(risks))
        IN  score = IF raw > 100 THEN 100 ELSE raw

\* C4 witness: two rules triggered at once, their boosts added below the cap.
C4_Witness ==
    /\ pc = "scored"
    /\ Cardinality(TriggeredRules(risks)) = 2
    /\ score = RankSum(risks) * 8 + 30
    /\ score < 100

\* C6: calculateOverallSeverity is low for the empty list and otherwise the
\* greatest severity present under low < medium < high < critical.
C6_OverallIsMaximum ==
    pc = "scored" =>
        IF risks = <<>> THEN overall = "low"
        ELSE /\ \E i \in 1..Len(risks) : risks[i].severity = overall
             /\ \A i \in 1..Len(risks) : severityRank(risks[i].severity) <= severityRank(overall)

\* C6 witness: a list whose greatest severity is neither first nor last.
C6_Witness ==
    /\ pc = "scored"
    /\ Len(risks) = 3
    /\ risks[1].severity = "low"
    /\ risks[2].severity = "high"
    /\ risks[3].severity = "medium"
    /\ overall = "high"

\* The greatest severity present in a list (low for the empty list).
MaxSeverity(list) ==
    IF list = <<>> THEN "low"
    ELSE CHOOSE s \in Severities :
            /\ \E i \in 1..Len(list) : list[i].severity = s
            /\ \A i \in 1..Len(list) : severityRank(list[i].severity) <= severityRank(s)

NoKeywordOccurs(t) == \A c \in CategorySet : ~KeywordOccurs(c, t)

\* C7 as stated: for a text without any category keyword the baseline
\* comparison is "average" at percentile 50.
C7_NoKeywordIsAverage ==
    (pc = "enhanced" /\ NoKeywordOccurs(text)) =>
        /\ result.comparison.comparison = "average"
        /\ result.comparison.percentile = 50

\* C7 amended: for a text without any category keyword the score 0 lies 55
\* below the default average, so the comparison is "better" at percentile 5.
C7_NoKeywordIsBetter ==
    (pc = "enhanced" /\ NoKeywordOccurs(text)) =>
        /\ result.comparison.comparison = "better"
        /\ result.comparison.percentile = 5
        /\ result.comparison.message = "This agreement is better than 95% of similar services"

\* C7 witness: a non-empty text without any keyword has been analysed.
C7_Witness ==
    /\ pc = "enhanced"
    /\ text # ""
    /\ NoKeywordOccurs(text)
    /\ result.score = 0
    /\ result.comparison.comparison = "better"

\* C8: analyzeRisksEnhanced returns a complete result record for every text,
\* and for a text without any keyword: no risks, score 0, no combination
\* warnings and the fixed summary.
C8_ResultForEveryText ==
    pc = "enhanced" =>
        /\ DOMAIN result = {"risks", "score", "comparison", "redFlags",
                            "combinationWarnings", "overallSeverity", "summary"}
        /\ result.score \in 0..100
        /\ result.overallSeverity \in Severities
        /\ result.comparison.comparison \in {"better", "average", "worse"}
        /\ NoKeywordOccurs(text) =>
              /\ result.risks = <<>>
              /\ result.score = 0
              /\ result.combinationWarnings = <<>>
              /\ result.summary = "No significant risks detected in this agreement."

\* C8 witness: a text with red flags but no keyword has been analysed.
C8_Witness ==
    /\ pc = "enhanced"
    /\ NoKeywordOccurs(text)
    /\ Len(result.redFlags) >= 2
    /\ result.risks = <<>>
    /\ result.summary = "No significant risks detected in this agreement."

\* C9: with the segment's average (55 for a segment the table does not list)
\* and d = score - average: d < -15 gives better with max(5, 50 - |d|), d > 15
\* gives worse with min(95, 50 + d), otherwise average with 50; the percentile
\* is within 0..100.
C9_ComparisonRule ==
    pc = "compared" =>
        LET average == IF industry \in DOMAIN INDUSTRY_AVERAGES
                       THEN INDUSTRY_AVERAGES[industry] ELSE 55
            d       == score - average
        IN  /\ d < -15 =>
                  /\ comparison.comparison = "better"
                  /\ comparison.percentile = (IF 50 + d > 5 THEN 50 + d ELSE 5)
            /\ d > 15 =>
                  /\ comparison.comparison = "worse"
                  /\ comparison.percentile = (IF 50 + d < 95 THEN 50 + d ELSE 95)
            /\ (d >= -15 /\ d <= 15) =>
                  /\ comparison.comparison = "average"
                  /\ comparison.percentile = 50
            /\ comparison.percentile \in 0..100

\* C10: the findings are ordered by severity, highest first, and findings of
\* equal severity follow the order of the category definitions.
C10_SortedStable ==
    pc = "analyzed" =>
        \A i, j \in 1..Len(risks) :
            i < j =>
                /\ severityRank(risks[i].severity) >= severityRank(risks[j].severity)
                /\ risks[i].severity = risks[j].severity =>
                      CategoryIndex[risks[i].category] < CategoryIndex[risks[j].category]

\* C10 witness: the sort moved a high finding ahead of an earlier category's
\* medium finding, and two medium findings kept their category order.
C10_Witness ==
    /\ pc = "analyzed"
    /\ Len(risks) = 3
    /\ risks[1].category = "third_party_access" /\ risks[1].severity = "high"
    /\ risks[2].category = "auto_renewal" /\ risks[2].severity = "medium"
    /\ risks[3].category = "data_retention" /\ risks[3].severity = "medium"

(***************************************************************************)
(* SpecFlags: a caller assembles a text from pieces of red-flag phrases    *)
(* (mixed case, runs of white space, phrases split over two pieces,        *)
(* repeated phrases) and calls detectRedFlags.                             *)
(***************************************************************************)
MaxFlagFrags == 2   \* pieces per text handed to detectRedFlags

FlagFragments ==
    { "Binding \t Arbitration. ",
      "binding arbitration",
      "No Refunds",
      " under any\ncircumstances.",
      "sell data, Sell Your Personal Information. ",
      "without notice",
      "class  action ",
      "waiver. " }

InitFlags ==
    /\ pc = "flag_input"
    /\ text = ""
    /\ frags = 0
    /\ now = 0
    /\ risks = <<>>
    /\ result = NoResult
    /\ score = 0
    /\ industry = "default"
    /\ overall = "low"
    /\ warnings = <<>>
    /\ comparison = NoResult
    /\ IdleExt

AppendFlagFragment ==
    /\ pc = "flag_input"
    /\ frags < MaxFlagFrags
    /\ \E f \in FlagFragments : text' = text \o f
    /\ frags' = frags + 1
    /\ UNCHANGED <<pc, now, risks, result, score, industry, overall, warnings, comparison, extVars>>

CallDetectRedFlags ==
    /\ pc = "flag_input"
    /\ flags' = detectRedFlags(text)
    /\ pc' = "flagged"
    /\ UNCHANGED <<analysisVars, previous, serviceVars>>

NextFlags == AppendFlagFragment \/ CallDetectRedFlags

SpecFlags == InitFlags /\ [][NextFlags]_vars

(***************************************************************************)
(* C11.  The phrases of a pattern are the word sequences it accepts; an    *)
(* empty last word stands for the white space that pattern 10 demands      *)
(* after "refund(s)".                                                      *)
(***************************************************************************)
PatternPhrases ==
    << { <<"waive", "right", "to", "jury">>, <<"waive", "your", "right", "to", "jury">>,
         <<"waive", "right", "to", "a", "jury">>, <<"waive", "your", "right", "to", "a", "jury">> },
       { <<"class", "action", "waiver">> },
       { <<"binding", "arbitration">> },
       { <<"sell", "data">>, <<"sell", "information">>,
         <<"sell", "your", "data">>, <<"sell", "your", "information">>,
         <<"sell", "personal", "data">>, <<"sell", "personal", "information">>,
         <<"sell", "your", "personal", "data">>, <<"sell", "your", "personal", "information">> },
       { <<"perpetual", "irrevocable", "license">>, <<"perpetual", "and", "irrevocable", "license">> },
       { <<"without", "notice">>, <<"without", "prior", "notice">> },
       { <<"sole", "discretion">>, <<"sole", "and", "absolute", "discretion">> },
       { <<"indemnify", "hold", "harmless">>, <<"indemnify", "and", "hold", "harmless">> },
       { <<"waive", "any", "claims">> },
       { <<"no", "refund", "">>, <<"no", "refunds", "">>,
         <<"no", "refund", "under", "any", "circumstances">>,
         <<"no", "refunds", "under", "any", "circumstances">> } >>

\* Position after the words, written at pos of s in any case and separated by
\* runs of white space; 0 when they are not written there.
RECURSIVE PhraseEnd(_, _, _)
PhraseEnd(words, s, pos) ==
    LET w   == Head(words)
        end == pos + Len(w)
    IN  IF end - 1 > Len(s) \/ FoldCase(SubSeq(s, pos, end - 1)) # w THEN 0
        ELSE IF Len(words) = 1 THEN end
             ELSE IF SpaceRun(s, end) = 0 THEN 0
                  ELSE PhraseEnd(Tail(words), s, end + SpaceRun(s, end))

\* The first place where a phrase of pattern k is written in s, as <<start, end>>
\* with the longest phrase written at start; <<>> when none is written anywhere.
FirstPhrase(k, s) ==
    LET starts == {p \in 1..(Len(s) + 1) : \E w \in PatternPhrases[k] : PhraseEnd(w, s, p) # 0}
    IN  IF starts = {} THEN <<>>
        ELSE LET p    == CHOOSE x \in starts : \A y \in starts : x <= y
                 ends == {PhraseEnd(w, s, p) : w \in PatternPhrases[k]}
             IN  <<p, CHOOSE e \in ends : \A d \in ends : e >= d>>

WrittenPatterns(s) == {k \in 1..Len(PatternPhrases) : FirstPhrase(k, s) # <<>>}

\* The k-th smallest element of a set of numbers.
RECURSIVE KthSmallest(_, _)
KthSmallest(k, set) ==
    LET m == CHOOSE x \in set : \A y \in set : x <= y
    IN  IF k = 1 THEN m ELSE KthSmallest(k - 1, set \ {m})

\* C11: detectRedFlags returns, in pattern order, one entry for each pattern that
\* matches the text, verbatim the text of its first match, and nothing for the
\* other patterns: at most ten entries, none when no pattern matches, and an
\* entry that reads "binding arbitration" (in some case, with some white space)
\* when the text contains that phrase.
C11_OneFlagPerMatchingPattern ==
    pc = "flagged" =>
        LET written == WrittenPatterns(text)
        IN  /\ Len(flags) = Cardinality(written)
            /\ Len(flags) <= Len(RED_FLAGS)
            /\ written = {} => flags = <<>>
            /\ \A i \in 1..Len(flags) :
                   LET span == FirstPhrase(KthSmallest(i, written), text)
                   IN  flags[i] = SubSeq(text, span[1], span[2] - 1)
            /\ Includes(text, "binding arbitration") =>
                   \E i \in 1..Len(flags) :
                       PhraseEnd(<<"binding", "arbitration">>, flags[i], 1) = Len(flags[i]) + 1

\* Witness of C11: two patterns match, the earlier one of the list comes first
\* although it is written later in the text, the white space and the case of the
\* text are kept, and of a pattern written twice only the first place is returned.
C11_Witness ==
    /\ pc = "flagged"
    /\ text = "sell data, Sell Your Personal Information. Binding \t Arbitration. "
    /\ flags = <<"Binding \t Arbitration", "sell data">>

(***************************************************************************)
(* C12.  A scored list is split into a front and the findings added to it, *)
(* at most MaxAdded of them.                                               *)
(***************************************************************************)
MaxAdded == 2   \* findings added to a list that was scored before

Splits(list) == {n \in 1..(Len(list) - 1) : Len(list) - n <= MaxAdded}

Front(list, n) == SubSeq(list, 1, n)
Added(list, n) == SubSeq(list, n + 1, Len(list))

\* The front already satisfies a rule, the added findings are of categories the
\* front does not have, and they complete no further rule.
AddsUnrelated(list, n) ==
    LET triggered == TriggeredRules(list)
    IN  /\ triggered # {}
        /\ TriggeredRules(Front(list, n)) = triggered
        /\ CategoriesOf(Added(list, n)) \cap CategoriesOf(Front(list, n)) = {}

NoDuplicates(seq) == \A i, j \in 1..Len(seq) : seq[i] = seq[j] => i = j

\* C12 as stated: adding unrelated findings to a list that satisfies a rule
\* leaves the warnings as they were, one per triggered rule, and the score is
\* the front's score plus 8 * rank of each added finding.
C12_ScoreGrowsByRankOnly ==
    pc = "scored" =>
        \A n \in Splits(risks) :
            AddsUnrelated(risks, n) =>
                /\ warnings = detectDangerousCombinations(Front(risks, n))
                /\ NoDuplicates(warnings)
                /\ Len(warnings) = Cardinality(TriggeredRules(risks))
                /\ score = calculateRiskScore(Front(risks, n)) + 8 * RankSum(Added(risks, n))

\* C12 amended: the same, with the sum saturating at 100: the score is
\* min(100, front's score + 8 * rank of each added finding).
C12_ScoreGrowsByRankUpToCap ==
    pc = "scored" =>
        \A n \in Splits(risks) :
            AddsUnrelated(risks, n) =>
                LET sum == calculateRiskScore(Front(risks, n)) + 8 * RankSum(Added(risks, n))
                IN  /\ warnings = detectDangerousCombinations(Front(risks, n))
                    /\ NoDuplicates(warnings)
                    /\ Len(warnings) = Cardinality(TriggeredRules(risks))
                    /\ score = IF sum > 100 THEN 100 ELSE sum

\* Witness of C12: arbitration and liability waiver trigger the first rule
\* (score 79); a jurisdiction finding of low severity is added, the warning
\* stays the only one and the score grows by 8.
C12_Witness ==
    /\ pc = "scored"
    /\ Len(risks) = 3
    /\ AddsUnrelated(risks, 2)
    /\ risks[3] = Finding("jurisdiction", "low")
    /\ calculateRiskScore(Front(risks, 2)) = 79
    /\ score = 87
    /\ warnings = <<DANGEROUS_COMBINATIONS[1].warning>>

\* C13: calculateOverallSeverity is monotonic: the result for a list L plus a
\* finding f is at least the result for L and at least the severity of f.
C13_OverallMonotonic ==
    (pc = "scored" /\ risks # <<>>) =>
        LET L == Front(risks, Len(risks) - 1)
            f == risks[Len(risks)]
        IN  /\ severityRank(overall) >= severityRank(calculateOverallSeverity(L))
            /\ severityRank(overall) >= severityRank(f.severity)

\* Witness of C13: a finding of low severity is added to a list whose result
\* is critical, and the result stays critical.
C13_Witness ==
    /\ pc = "scored"
    /\ Len(risks) = 2
    /\ calculateOverallSeverity(Front(risks, 1)) = "critical"
    /\ risks[2].severity = "low"
    /\ overall = "critical"

MaxClock == 2   \* the clock readings are 0..MaxClock

Tick ==
    /\ pc \in {"input", "once"}
    /\ now < MaxClock
    /\ now' = now + 1
    /\ UNCHANGED <<pc, text, frags, risks, result, score, industry, overall, warnings, comparison,
                   extVars>>

CallFirst ==
    /\ pc = "input"
    /\ previous' = analyzeRisksEnhanced(text, now)
    /\ pc' = "once"
    /\ UNCHANGED <<analysisVars, flags, serviceVars>>

CallAgain ==
    /\ pc = "once"
    /\ result' = analyzeRisksEnhanced(text, now)
    /\ pc' = "twice"
    /\ UNCHANGED <<text, frags, now, risks, score, industry, overall, warnings, comparison,
                   extVars>>

NextRepeat == AppendFragment \/ Tick \/ CallFirst \/ CallAgain

SpecRepeat == Init /\ [][NextRepeat]_vars

\* The record without the findings' ids.
WithoutIds(r) ==
    [r EXCEPT !.risks = [i \in 1..Len(r.risks) |-> [r.risks[i] EXCEPT !.id = <<>>]]]

\* C15: two invocations on the same text, at any times, return records that
\* are equal in every field, the findings' ids included.
C15_SameTextSameResult ==
    pc = "twice" => result = previous

\* Apart from the ids the two records are equal; the ids are equal when the
\* two invocations read the same clock value.
C15_EqualUpToIds ==
    pc = "twice" => WithoutIds(result) = WithoutIds(previous)

(***************************************************************************)
(* C16.  The place of a keyword in the text itself, in any letter case.    *)
(***************************************************************************)
\* 0-based index of the first place where keyword k is written in t, or -1.
PlaceInText(t, k) == IndexOf(FoldCase(t), ToLowerCase(k))

\* The finding r of text t is built from the first keyword, in list order, that
\* is written in t, at the first place where it is written.
BuiltFromFirstKeyword(r, t) ==
    LET keywords == RISK_KEYWORDS[r.category]
        written  == {k \in 1..Len(keywords) : PlaceInText(t, keywords[k]) # -1}
    IN  /\ written # {}
        /\ LET keyword == keywords[CHOOSE k \in written : \A j \in written : k <= j]
                start   == PlaceInText(t, keyword)
                end     == start + Len(keyword)
            IN  /\ r.location.startIndex = start
                /\ r.location.endIndex = end
                /\ 0 <= r.location.startIndex
                /\ r.location.startIndex < r.location.endIndex
                /\ r.location.endIndex <= Len(t)
                /\ r.originalText =
                       Trim(Substring(t, Max(0, start - 100), Min(Len(t), end + 100)))

\* C16: every finding is built from the first keyword of its category's list
\* that occurs in the text, at that keyword's first occurrence: startIndex is
\* that index, endIndex = startIndex + keyword length, 0 <= startIndex <
\* endIndex <= text length, and the context is the trimmed original text from
\* max(0, startIndex - 100) to min(text length, endIndex + 100).
C16_LocationOfFirstKeyword ==
    pc = "analyzed" => \A n \in 1..Len(risks) : BuiltFromFirstKeyword(risks[n], text)

\* The same holds for the texts whose lower case has the text's length.
C16_LocationInSameLengthText ==
    (pc = "analyzed" /\ Len(ToLowerCase(text)) = Len(text)) =>
        \A n \in 1..Len(risks) : BuiltFromFirstKeyword(risks[n], text)

(***************************************************************************)
(* Cloud analysis (src/src/services/llm-analyzer.ts) and its caller        *)
(* analyzeRisksWithLLM.  A JSON text is one of a fixed set of texts, and   *)
(* JSON.parse is the table of their values; a member an object does not    *)
(* have reads as "" (undefined), which is falsy like the empty string.     *)
(***************************************************************************)
JsonUndefined == [t |-> "undefined", n |-> 0, items |-> <<>>]
JsonNumber(n) == [t |-> "number", n |-> n, items |-> <<>>]
JsonArray(items) == [t |-> "array", n |-> 0, items |-> items]

JsonSyntaxError ==
    [t |-> "SyntaxError", risks |-> JsonUndefined, summary |-> "", overallSeverity |-> ""]
JsonNull == [t |-> "null", risks |-> JsonUndefined, summary |-> "", overallSeverity |-> ""]
JsonObject(r, s, o) == [t |-> "object", risks |-> r, summary |-> s, overallSeverity |-> o]

RawRisk(c, s, title) ==
    [category |-> c, severity |-> s, title |-> title, summary |-> "", originalText |-> ""]

JSONParse(content) ==
    CASE content = "null" -> JsonNull
      [] content = "{}" -> JsonObject(JsonUndefined, "", "")
      [] content = "{\"risks\":5}" -> JsonObject(JsonNumber(5), "", "")
      [] content = "{\"risks\":[],\"summary\":\"Nothing found\",\"overallSeverity\":\"low\"}" ->
            JsonObject(JsonArray(<<>>), "Nothing found", "low")
      [] content = "{\"risks\":[{\"category\":\"jurisdiction\",\"severity\":\"high\",\"title\":\"Foreign courts\"}]}" ->
            JsonObject(JsonArray(<<RawRisk("jurisdiction", "high", "Foreign courts")>>), "", "")
      [] content = "{\"risks\":[{\"category\":\"privacy\",\"severity\":\"severe\"}]}" ->
            JsonObject(JsonArray(<<RawRisk("privacy", "severe", "")>>), "", "")
      [] OTHER -> JsonSyntaxError

RISK_DESCRIPTIONS ==
    [ data_sharing        |-> "Your data may be shared with third parties",
      auto_renewal        |-> "Subscription automatically renews",
      third_party_access  |-> "External parties can access your information",
      liability_waiver    |-> "Company limits their responsibility",
      arbitration         |-> "You may waive your right to sue in court",
      data_retention      |-> "Your data may be kept indefinitely",
      account_termination |-> "Account can be terminated without notice",
      jurisdiction        |-> "Legal disputes governed by specific laws" ]

validateCategory(category) ==
    IF category \in CategorySet THEN category ELSE "liability_waiver"

validateSeverity(severity) ==
    IF severity \in {"low", "medium", "high", "critical"} THEN severity ELSE "medium"

generateDefaultSummary(list) == generateOverallSummary(list)

\* The catch branch of parseAnalysisResponse.
UnableToAnalyze ==
    [ risks |-> <<>>, summary |-> "Unable to analyze this agreement.", overallSeverity |-> "medium" ]

\* parseAnalysisResponse never throws: JSON.parse's SyntaxError, the TypeError
\* of reading null.risks and the TypeError of calling map on a number all end in
\* the catch branch.
parseAnalysisResponse(content, time) ==
    LET parsed == JSONParse(content)
    IN  IF \/ parsed.t \in {"SyntaxError", "null"}
           \/ parsed.risks.t = "number" /\ parsed.risks.n # 0
        THEN [threw |-> FALSE, result |-> UnableToAnalyze]
        ELSE LET raw  == IF parsed.risks.t = "array" THEN parsed.risks.items ELSE <<>>
                 list == [ index \in 1..Len(raw) |->
                             LET risk     == raw[index]
                                 category == validateCategory(risk.category)
                             IN  [ id           |-> <<"llm-risk", time, index - 1>>,
                                   category     |-> category,
                                   severity     |-> validateSeverity(risk.severity),
                                   title        |-> IF risk.title # "" THEN risk.title
                                                    ELSE RISK_CATEGORIES[category].label,
                                   summary      |-> IF risk.summary # "" THEN risk.summary
                                                    ELSE RISK_DESCRIPTIONS[category],
                                   originalText |-> risk.originalText ] ]
             IN  [ threw  |-> FALSE,
                   result |-> [ risks           |-> list,
                                summary         |-> IF parsed.summary # "" THEN parsed.summary
                                                    ELSE generateDefaultSummary(list),
                                overallSeverity |-> validateSeverity(parsed.overallSeverity) ] ]

\* analyzeWithLLM after the fetch was answered with resp: the AnalysisResult, or
\* threw when the function rejects.
analyzeWithLLM(resp, time) ==
    IF \/ resp.fetch = "rejects"            \* network error
       \/ ~resp.ok                          \* throw new Error(`API error: ...`)
       \/ resp.json = "invalid"             \* response.json() rejects
       \/ resp.choices = "undefined"        \* data.choices[0]: TypeError
       \/ resp.choices = "empty"            \* content undefined: 'No response content'
       \/ resp.content = ""                 \* 'No response content'
    THEN [threw |-> TRUE, result |-> UnableToAnalyze]
    ELSE parseAnalysisResponse(resp.content, time)

(***************************************************************************)
(* SpecLLM: a page text is assembled, an API key may be saved, and         *)
(* analyzeRisksWithLLM runs: it awaits getAPIKey, then analyzeWithLLM.     *)
(***************************************************************************)
APIKeys == {"sk-test"}

Response(fetch, ok, json, choices, content) ==
    [fetch |-> fetch, ok |-> ok, json |-> json, choices |-> choices, content |-> content]

Contents ==
    { "", "not json", "null", "{}", "{\"risks\":5}",
      "{\"risks\":[],\"summary\":\"Nothing found\",\"overallSeverity\":\"low\"}",
      "{\"risks\":[{\"category\":\"jurisdiction\",\"severity\":\"high\",\"title\":\"Foreign courts\"}]}",
      "{\"risks\":[{\"category\":\"privacy\",\"severity\":\"severe\"}]}" }

\* The answers of the endpoint: no answer, an HTTP error, a body that is not
\* JSON, a body without choices, and a completion with each content.
Responses ==
    { Response("rejects", FALSE, "none", "none", ""),
      Response("resolves", FALSE, "none", "none", ""),
      Response("resolves", TRUE, "invalid", "none", ""),
      Response("resolves", TRUE, "valid", "undefined", ""),
      Response("resolves", TRUE, "valid", "empty", "") }
    \cup {Response("resolves", TRUE, "valid", "one", c) : c \in Contents}

\* setAPIKey, called from the options page.
SetAPIKey ==
    /\ pc = "input"
    /\ \E k \in APIKeys : storedKey' = k
    /\ UNCHANGED <<pc, analysisVars, callVars, apiKey, response, returned, usageVars, analyticsVars, contentVars, historyVars, interceptVars, backendVars>>

\* analyzeRisksWithLLM up to the end of "await getAPIKey()": the lookup rejects
\* (catch, then fallback), or resolves with the stored key or null (fallback).
AwaitGetAPIKey ==
    /\ pc = "input"
    /\ \E lookup \in {"resolves", "rejects"} :
          IF lookup = "resolves" /\ storedKey # ""
          THEN /\ apiKey' = storedKey
               /\ pc' = "llm_fetch"
               /\ UNCHANGED returned
          ELSE /\ returned' = analyzeRisks(text, now)
               /\ pc' = "llm_done"
               /\ UNCHANGED apiKey
    /\ UNCHANGED <<analysisVars, callVars, storedKey, response, usageVars, analyticsVars, contentVars, historyVars, interceptVars, backendVars>>

\* The rest of analyzeRisksWithLLM: "await analyzeWithLLM(...)" resolves and
\* result.risks is returned, or it rejects (catch, then fallback).
AwaitAnalyzeWithLLM ==
    /\ pc = "llm_fetch"
    /\ \E resp \in Responses :
          /\ response' = resp
          /\ LET analysis == analyzeWithLLM(resp, now)
             IN  returned' = IF analysis.threw THEN analyzeRisks(text, now)
                             ELSE analysis.result.risks
    /\ pc' = "llm_done"
    /\ UNCHANGED <<analysisVars, callVars, storedKey, apiKey, usageVars, analyticsVars, contentVars, historyVars, interceptVars, backendVars>>

NextLLM == AppendFragment \/ SetAPIKey \/ AwaitGetAPIKey \/ AwaitAnalyzeWithLLM

SpecLLM == Init /\ [][NextLLM]_vars

\* The cloud analysis succeeded: a key was read, the endpoint answered with a
\* completion, and its content is JSON text.
CloudSucceeded ==
    /\ apiKey # ""
    /\ response.fetch = "resolves" /\ response.ok /\ response.json = "valid"
    /\ response.choices = "one" /\ response.content # ""
    /\ JSONParse(response.content).t # "SyntaxError"

\* C17: analyzeRisksWithLLM always returns; it returns the cloud analyzer's
\* risks when a key is stored and the cloud analysis succeeded, and in every
\* other case (no key, failed lookup, HTTP error, empty or unparseable
\* response) the findings of analyzeRisks for the same text.
C17_CloudOrKeywordFallback ==
    pc = "llm_done" =>
        IF CloudSucceeded
        THEN returned = parseAnalysisResponse(response.content, now).result.risks
        ELSE returned = analyzeRisks(text, now)

\* The same without the case of a completion whose content is not JSON text:
\* whenever analyzeWithLLM rejects or no key is read, the keyword findings are returned.
C17_FallbackWhenCloudRejects ==
    (pc = "llm_done" /\ (apiKey = "" \/ analyzeWithLLM(response, now).threw)) =>
        returned = analyzeRisks(text, now)

(***************************************************************************)
(* Usage quota (src/src/content/index.ts, src/src/background/index.ts).    *)
(* The clock counts TicksPerMonth instants per calendar month; every await *)
(* of scanPage is a step, so that other invocations run in between.  The   *)
(* storage write of a reset is issued inside the callback of the read and  *)
(* is taken together with it.                                              *)
(***************************************************************************)
FREE_SCANS_PER_MONTH == 5
MonthsPerYear == 12
TicksPerMonth == 2   \* instants of the clock per calendar month
MaxAdvances == 1     \* times the clock is advanced
MaxScans == 6        \* no scan is started once this many are counted

\* new Date(t).getMonth() and new Date(t).getFullYear().
GetMonth(t) == (t \div TicksPerMonth) % MonthsPerYear
GetFullYear(t) == (t \div TicksPerMonth) \div MonthsPerYear

\* Mutant: only the month numbers are compared.
NeedsReset_MonthOnly(stored, t) == GetMonth(stored.monthStart) # GetMonth(t)

\* "Check if we need to reset for new month".
NeedsReset(stored, t) ==
    \/ GetMonth(stored.monthStart) # GetMonth(t)
    \/ GetFullYear(stored.monthStart) # GetFullYear(t)

\* The value getUsage resolves with when the storage holds stored at time t.
getUsage(stored, t) ==
    IF NeedsReset(stored, t)
    THEN [stored EXCEPT !.scansThisMonth = 0, !.monthStart = t]
    ELSE stored

\* One run of getUsage for caller by: the storage is read, a reset is written
\* back, and the call is recorded.
GetUsageBy(by) ==
    /\ usage' = getUsage(usage, now)
    /\ got' = [ by       |-> by,
                returned |-> getUsage(usage, now),
                wrote    |-> NeedsReset(usage, now) ]

IdleAnalysis ==
    /\ text = ""
    /\ frags = 0
    /\ now = 0
    /\ risks = <<>>
    /\ result = NoResult
    /\ score = 0
    /\ industry = "default"
    /\ overall = "low"
    /\ warnings = <<>>
    /\ comparison = NoResult

InitUsage ==
    /\ pc = "usage"
    /\ IdleAnalysis
    /\ IdleCalls
    /\ IdleLLM
    /\ IdleBackend
    /\ IdleIntercept
    /\ IdleHistory
    /\ IdleAnalytics
    /\ IdleContent
    /\ usage \in {DEFAULT_USAGE, Usage(0, 0, "paid", "PYN-LICENSE")}
    /\ scanPc = [p \in Tabs |-> "idle"]
    /\ held = [p \in Tabs |-> DEFAULT_USAGE]
    /\ outcome = [p \in Tabs |-> "none"]
    /\ got = NoCall
    /\ advances = 0
    /\ granted = 0

\* Time passes: an instant, a month, or a whole year.
AdvanceClock ==
    /\ pc = "usage"
    /\ advances < MaxAdvances
    /\ \E d \in {1, TicksPerMonth, MonthsPerYear * TicksPerMonth} : now' = now + d
    /\ advances' = advances + 1
    /\ got' = NoCall
    /\ UNCHANGED <<pc, text, frags, risks, result, score, industry, overall, warnings, comparison,
                   callVars, llmVars, analyticsVars, contentVars, usage, scanPc, held, outcome, granted, historyVars, interceptVars, backendVars>>

\* A SCAN_PAGE message reaches a tab whose content script listens for it:
\* scanPage from its call to the first await after the quota check: getUsage,
\* the check, detectAgreement and the analysis, up to incrementUsage's getUsage.
ScanCheck(p) ==
    /\ pc = "usage"
    /\ script[p].listening
    /\ scanPc[p] = "idle"
    /\ usage.scansThisMonth < MaxScans
    /\ GetUsageBy(p)
    /\ LET current        == getUsage(usage, now)
           scansRemaining == FREE_SCANS_PER_MONTH - current.scansThisMonth
           since          == IF NeedsReset(usage, now) THEN 0 ELSE granted
       IN  IF current.tier = "free" /\ scansRemaining <= 0
           THEN /\ outcome' = [outcome EXCEPT ![p] = "LIMIT_REACHED"]
                /\ granted' = since
                /\ UNCHANGED scanPc
           ELSE \E detection \in {"agreement", "none", "throws"} :
                   CASE detection = "none" ->
                          /\ outcome' = [outcome EXCEPT ![p] = "NO_AGREEMENT"]
                          /\ granted' = since
                          /\ UNCHANGED scanPc
                     [] detection = "throws" ->
                          /\ outcome' = [outcome EXCEPT ![p] = "SCAN_FAILED"]
                          /\ granted' = since
                          /\ UNCHANGED scanPc
                     [] detection = "agreement" ->
                          /\ outcome' = [outcome EXCEPT ![p] = "none"]
                          /\ granted' = since + 1
                          /\ scanPc' = [scanPc EXCEPT ![p] = "incrementing"]
    /\ UNCHANGED <<pc, analysisVars, callVars, llmVars, analyticsVars, contentVars, held, advances, historyVars, interceptVars, backendVars>>

\* incrementUsage: "const usage = await getUsage()", newUsage is built and the
\* write is issued.
IncrementRead(p) ==
    /\ pc = "usage"
    /\ scanPc[p] = "incrementing"
    /\ GetUsageBy(p)
    /\ granted' = IF NeedsReset(usage, now) THEN 0 ELSE granted
    /\ held' = [held EXCEPT ![p] = getUsage(usage, now)]
    /\ scanPc' = [scanPc EXCEPT ![p] = "writing"]
    /\ UNCHANGED <<pc, analysisVars, callVars, llmVars, analyticsVars, contentVars, outcome, advances, historyVars, interceptVars, backendVars>>

\* incrementUsage: chrome.storage.local.set of newUsage takes effect.
IncrementWrite(p) ==
    /\ pc = "usage"
    /\ scanPc[p] = "writing"
    /\ usage' = [held[p] EXCEPT !.scansThisMonth = held[p].scansThisMonth + 1]
    /\ held' = [held EXCEPT ![p] = DEFAULT_USAGE]
    /\ scanPc' = [scanPc EXCEPT ![p] = "reporting"]
    /\ UNCHANGED <<pc, analysisVars, callVars, llmVars, analyticsVars, contentVars, outcome, got, advances, granted, historyVars, interceptVars, backendVars>>

\* scanPage: "const newUsage = await getUsage()", the results are shown and the
\* ScanResult is returned.
ScanReport(p) ==
    /\ pc = "usage"
    /\ scanPc[p] = "reporting"
    /\ GetUsageBy(p)
    /\ granted' = IF NeedsReset(usage, now) THEN 0 ELSE granted
    /\ outcome' = [outcome EXCEPT ![p] = "ScanResult"]
    /\ scanPc' = [scanPc EXCEPT ![p] = "idle"]
    /\ UNCHANGED <<pc, analysisVars, callVars, llmVars, analyticsVars, contentVars, held, advances, historyVars, interceptVars, backendVars>>

\* The background's getUsage, answering GET_USAGE from the popup.
BackgroundGetUsage ==
    /\ pc = "usage"
    /\ GetUsageBy("background")
    /\ granted' = IF NeedsReset(usage, now) THEN 0 ELSE granted
    /\ UNCHANGED <<pc, analysisVars, callVars, llmVars, analyticsVars, contentVars, scanPc, held, outcome, advances, historyVars, interceptVars, backendVars>>

NextUsage ==
    \/ AdvanceClock
    \/ BackgroundGetUsage
    \/ \E p \in Tabs : ScanCheck(p)
    \/ \E p \in Tabs : IncrementRead(p)
    \/ \E p \in Tabs : IncrementWrite(p)
    \/ \E p \in Tabs : ScanReport(p)

SpecUsage == InitUsage /\ [][NextUsage]_vars

\* C18: a free-tier user gets at most 5 scans per month: the stored
\* scansThisMonth never exceeds FREE_SCANS_PER_MONTH and no more than 5 scans
\* get through to a ScanResult in a month, whatever the interleaving of
\* scanPage calls.
C18_FreeTierQuota ==
    usage.tier = "free" => usage.scansThisMonth <= 5 /\ granted <= 5

\* Without interleaving (a scanPage call starts only when no other is in
\* flight) the quota holds.
NextUsageSequential ==
    \/ AdvanceClock
    \/ BackgroundGetUsage
    \/ \E p \in Tabs : (\A q \in Tabs : scanPc[q] = "idle") /\ ScanCheck(p)
    \/ \E p \in Tabs : IncrementRead(p)
    \/ \E p \in Tabs : IncrementWrite(p)
    \/ \E p \in Tabs : ScanReport(p)

SpecUsageSequential == InitUsage /\ [][NextUsageSequential]_vars

C18_SequentialQuota ==
    \/ usage.tier = "paid"
    \/ usage.scansThisMonth <= FREE_SCANS_PER_MONTH /\ granted <= FREE_SCANS_PER_MONTH

\* The instants a and b lie in different calendar months (of any year).
DifferentMonth(a, b) == (a \div TicksPerMonth) # (b \div TicksPerMonth)

\* C19: whenever getUsage runs while the stored monthStart lies in another
\* calendar month or year than the current time, it stores and returns the
\* usage with scansThisMonth = 0 and monthStart = now, tier and licenseKey as
\* they were; in the same month it returns the stored usage and writes
\* nothing.  A scan checked after the month changed is not answered with
\* LIMIT_REACHED.
C19_MonthlyReset ==
    [][ (got' # got /\ got'.by # "none") =>
          IF DifferentMonth(usage.monthStart, now)
          THEN /\ got'.wrote
               /\ got'.returned = Usage(0, now, usage.tier, usage.licenseKey)
               /\ usage' = got'.returned
               /\ \A p \in Tabs :
                      (got'.by = p /\ scanPc[p] = "idle") => outcome'[p] # "LIMIT_REACHED"
          ELSE /\ ~got'.wrote
               /\ got'.returned = usage
               /\ usage' = usage ]_vars

\* Witness of C19: a free-tier user whose five scans are used up was answered
\* LIMIT_REACHED, the month changed, getUsage reset the counter, and the next
\* scan returned a ScanResult: one scan is counted in the new month.
C19_Witness ==
    /\ usage.tier = "free"
    /\ outcome["tab1"] = "LIMIT_REACHED"
    /\ outcome["tab2"] = "ScanResult"
    /\ got.by = "tab2"
    /\ DifferentMonth(0, usage.monthStart)
    /\ usage.scansThisMonth = 1
    /\ granted = 1

\* ---------------------------------------------------------------------
\* Analytics: trackEvent and updateAnalyticsSettings (services/analytics),
\* queueAnalyticsEvent and flushAnalyticsQueue (background/index.ts).
\* Every await on chrome.storage or fetch ends a step: what another
\* invocation writes in between is seen only by a later read.
\* ---------------------------------------------------------------------

ANALYTICS_BATCH_SIZE == 20
MaxLocalEvents == 1000
MaxEvents == 2
MaxSessions == 2

AnalyticsEvent(id, sessionId, metadata) ==
    [id |-> id, sessionId |-> sessionId, metadata |-> metadata]

\* generateSessionId: an id no earlier session had.
generateSessionId(last) == last + 1

\* storeEventLocally: drops the oldest event at 1000, then appends.  Its read
\* and its write are one step: the model runs one trackEvent at a time.
storeEventLocally(events, event) ==
    Append(IF Len(events) >= MaxLocalEvents THEN Tail(events) ELSE events, event)

\* The events of one request, each with the stored setting at the time.
Posted(events, enabled) ==
    {[event |-> events[i], enabled |-> enabled] : i \in 1..Len(events)}

\* flushAnalyticsQueue after its settings read: with the setting read as
\* disabled it empties the queue; otherwise it takes the queue as eventsToSend,
\* empties it and posts the events.
flushAnalyticsQueue(f, enabled) ==
    IF ~enabled
    THEN /\ analyticsQueue' = <<>>
         /\ flusher' = [flusher EXCEPT ![f] = IdleFlusher]
         /\ UNCHANGED sent
    ELSE /\ flusher' = [flusher EXCEPT ![f] = [pc |-> "sending", enabled |-> enabled,
                                               eventsToSend |-> analyticsQueue]]
         /\ analyticsQueue' = <<>>
         /\ sent' = sent \cup Posted(analyticsQueue, settings.enabled)

InitAnalytics ==
    /\ pc = "analytics"
    /\ IdleAnalysis
    /\ IdleCalls
    /\ IdleLLM
    /\ IdleBackend
    /\ IdleIntercept
    /\ IdleHistory
    /\ IdleUsage
    /\ IdleAnalytics
    /\ IdleContent

\* trackEvent up to its second await: getAnalyticsSettings has returned the
\* stored settings and the event is built with their session id.
\* Here trackEvent(eventType) without metadata, as Analytics.scanStarted calls it.
TrackRead ==
    /\ pc = "analytics"
    /\ tracker.pc = "idle"
    /\ tracked < MaxEvents
    /\ tracked' = tracked + 1
    /\ tracker' = [pc |-> "storing", settings |-> settings,
                   event |-> AnalyticsEvent(tracked + 1, settings.sessionId, NoMetadata)]
    /\ UNCHANGED <<pc, analysisVars, callVars, llmVars, usageVars, contentVars, settings, localEvents,
                   inbox, analyticsQueue, flusher, updater, sent, historyVars, interceptVars, backendVars>>

\* trackEvent from storeEventLocally to its end: the event is stored, and
\* forwarded to the background when the settings read earlier were enabled.
TrackStore ==
    /\ pc = "analytics"
    /\ tracker.pc = "storing"
    /\ localEvents' = storeEventLocally(localEvents, tracker.event)
    /\ inbox' = IF tracker.settings.enabled THEN Append(inbox, tracker.event) ELSE inbox
    /\ tracker' = IdleTracker
    /\ UNCHANGED <<pc, analysisVars, callVars, llmVars, usageVars, contentVars, settings, tracked,
                   analyticsQueue, flusher, updater, sent, historyVars, interceptVars, backendVars>>

\* The background's QUEUE_ANALYTICS_EVENT handler, queueAnalyticsEvent: the
\* event is pushed, and a full queue starts a flush.
QueueAnalyticsEvent ==
    /\ pc = "analytics"
    /\ inbox # <<>>
    /\ inbox' = Tail(inbox)
    /\ analyticsQueue' = Append(analyticsQueue, Head(inbox))
    /\ IF Len(analyticsQueue) + 1 >= ANALYTICS_BATCH_SIZE
       THEN \E f \in Flushers :
                /\ flusher[f].pc = "idle"
                /\ flusher' = [flusher EXCEPT ![f].pc = "reading"]
       ELSE UNCHANGED flusher
    /\ UNCHANGED <<pc, analysisVars, callVars, llmVars, usageVars, contentVars, settings, localEvents,
                   tracked, tracker, updater, sent, historyVars, interceptVars, backendVars>>

\* The analyticsBatch alarm: flushAnalyticsQueue up to its settings read (it
\* returns at once on an empty queue).
FlushStart(f) ==
    /\ pc = "analytics"
    /\ flusher[f].pc = "idle"
    /\ analyticsQueue # <<>>
    /\ flusher' = [flusher EXCEPT ![f].pc = "reading"]
    /\ UNCHANGED <<pc, analysisVars, callVars, llmVars, usageVars, contentVars, settings, localEvents,
                   tracked, tracker, inbox, analyticsQueue, updater, sent, historyVars, interceptVars, backendVars>>

\* chrome.storage.local.get('analyticsSettings') answers the flush.
FlushRead(f) ==
    /\ pc = "analytics"
    /\ flusher[f].pc = "reading"
    /\ flusher' = [flusher EXCEPT ![f].pc = "checking", ![f].enabled = settings.enabled]
    /\ UNCHANGED <<pc, analysisVars, callVars, llmVars, usageVars, contentVars, settings, localEvents,
                   tracked, tracker, inbox, analyticsQueue, updater, sent, historyVars, interceptVars, backendVars>>

\* The flush resumes with the setting it read.
FlushCheck(f) ==
    /\ pc = "analytics"
    /\ flusher[f].pc = "checking"
    /\ flushAnalyticsQueue(f, flusher[f].enabled)
    /\ UNCHANGED <<pc, analysisVars, callVars, llmVars, usageVars, contentVars, settings, localEvents,
                   tracked, tracker, inbox, updater, historyVars, interceptVars, backendVars>>

\* The request is answered: on !response.ok or a thrown fetch the events go
\* back to the front of the queue.
FlushDone(f) ==
    /\ pc = "analytics"
    /\ flusher[f].pc = "sending"
    /\ \E ok \in BOOLEAN :
           analyticsQueue' = IF ok THEN analyticsQueue
                             ELSE flusher[f].eventsToSend \o analyticsQueue
    /\ flusher' = [flusher EXCEPT ![f] = IdleFlusher]
    /\ UNCHANGED <<pc, analysisVars, callVars, llmVars, usageVars, contentVars, settings, localEvents,
                   tracked, tracker, inbox, updater, sent, historyVars, interceptVars, backendVars>>

\* updateAnalyticsSettings(enabled) up to its write: the settings are read.
UpdateRead ==
    /\ pc = "analytics"
    /\ updater.pc = "idle"
    /\ \E enabled \in BOOLEAN :
           /\ enabled => settings.sessionId < MaxSessions
           /\ updater' = [pc |-> "writing", enabled |-> enabled, settings |-> settings]
    /\ UNCHANGED <<pc, analysisVars, callVars, llmVars, usageVars, contentVars, settings, localEvents,
                   tracked, tracker, inbox, analyticsQueue, flusher, sent, historyVars, interceptVars, backendVars>>

\* updateAnalyticsSettings writes the settings it read with the new flag, and
\* with a new session id when enabling.
UpdateWrite ==
    /\ pc = "analytics"
    /\ updater.pc = "writing"
    /\ settings' = [enabled |-> updater.enabled,
                    sessionId |-> IF updater.enabled
                                  THEN generateSessionId(updater.settings.sessionId)
                                  ELSE updater.settings.sessionId]
    /\ updater' = IdleUpdater
    /\ UNCHANGED <<pc, analysisVars, callVars, llmVars, usageVars, contentVars, localEvents,
                   tracked, tracker, inbox, analyticsQueue, flusher, sent, historyVars, interceptVars, backendVars>>

NextAnalytics ==
    \/ TrackRead
    \/ TrackStore
    \/ QueueAnalyticsEvent
    \/ \E f \in Flushers : FlushStart(f)
    \/ \E f \in Flushers : FlushRead(f)
    \/ \E f \in Flushers : FlushCheck(f)
    \/ \E f \in Flushers : FlushDone(f)
    \/ UpdateRead
    \/ UpdateWrite

SpecAnalytics == InitAnalytics /\ [][NextAnalytics]_vars

\* C20: while the stored analytics setting is disabled no analytics event is
\* transmitted to the server, whatever the interleaving of
\* updateAnalyticsSettings(false) with queued events and a running flush:
\* every request that carried events was made with the setting enabled.
C20_NoTransmissionWhileOptedOut ==
    \A posted \in sent : posted.enabled

\* What the code does keep: a flush that read the setting as disabled empties
\* the queue and posts nothing; one that read it as enabled posts the queue.
C20_FlushSendsOnlyWhatItReadAsEnabled ==
    [][ \A f \in Flushers :
          (flusher[f].pc = "checking" /\ flusher'[f].pc # "checking") =>
              IF flusher[f].enabled
              THEN sent' = sent \cup Posted(analyticsQueue, settings.enabled)
              ELSE sent' = sent /\ analyticsQueue' = <<>> ]_vars

\* ---------------------------------------------------------------------
\* Analytics metadata: sanitizeMetadata and simpleHash (services/analytics)
\* and the events the background posts.
\* ---------------------------------------------------------------------

Base36Digits == "0123456789abcdefghijklmnopqrstuvwxyz"
Radix36 == 36
HashShiftFactor == 31
HalfWord == 65536
CodeOfLowerA == 97
CodeOfDot == 46
CodeOfSlash == 47

\* String.prototype.charCodeAt for the characters of the modelled values.
CharCodeAt(c) ==
    IF c = "." THEN CodeOfDot
    ELSE IF c = "/" THEN CodeOfSlash
    ELSE CodeOfLowerA - 1 + (CHOOSE j \in 1..26 : SubSeq(LowerAlpha, j, j) = c)

\* One round of simpleHash, ((hash << 5) - hash) + char wrapped to 32 bits by
\* hash & hash, on the two 16-bit halves of the hash.
HashStep(h, code) ==
    LET low  == h.lo * HashShiftFactor + code
        high == h.hi * HashShiftFactor + (low \div HalfWord)
    IN  [hi |-> high % HalfWord, lo |-> low % HalfWord]

RECURSIVE HashChars(_, _)
HashChars(h, str) ==
    IF Len(str) = 0 THEN h
    ELSE HashChars(HashStep(h, CharCodeAt(SubSeq(str, 1, 1))), SubSeq(str, 2, Len(str)))

\* Math.abs of the 32-bit signed value held in two halves.
AbsInt32(h) ==
    IF h.hi >= HalfWord \div 2
    THEN (HalfWord - 1 - h.hi) * HalfWord + (HalfWord - h.lo)
    ELSE h.hi * HalfWord + h.lo

\* Number.prototype.toString(36) of a non-negative integer.
RECURSIVE ToBase36(_)
ToBase36(n) ==
    IF n < Radix36 THEN SubSeq(Base36Digits, n + 1, n + 1)
    ELSE ToBase36(n \div Radix36) \o SubSeq(Base36Digits, (n % Radix36) + 1, (n % Radix36) + 1)

simpleHash(str) == ToBase36(AbsInt32(HashChars([hi |-> 0, lo |-> 0], str)))

Entry(key, type, value) == [key |-> key, type |-> type, value |-> value]
Metadata(entries) == [defined |-> TRUE, entries |-> entries]

SensitiveKeys == {"url", "email", "name", "phone", "content", "text"}

\* sanitized[key] = value: replaces the value of a key already there, else
\* adds the key last.
SetProperty(entries, entry) ==
    IF \E i \in 1..Len(entries) : entries[i].key = entry.key
    THEN [i \in 1..Len(entries) |->
             IF entries[i].key = entry.key THEN entry ELSE entries[i]]
    ELSE Append(entries, entry)

RECURSIVE SanitizeEntries(_, _)
SanitizeEntries(entries, sanitized) ==
    IF entries = <<>> THEN sanitized
    ELSE LET e == Head(entries)
         IN  SanitizeEntries(Tail(entries),
                 IF ToLowerCase(e.key) \in SensitiveKeys THEN sanitized
                 ELSE IF e.key = "domain" /\ e.type = "string"
                      THEN SetProperty(sanitized,
                                       Entry("domainHash", "string", simpleHash(e.value)))
                      ELSE SetProperty(sanitized, e))

sanitizeMetadata(metadata) == Metadata(SanitizeEntries(metadata.entries, <<>>))

\* sendEventsToServer's body: each event with sanitized metadata.
sendEventsToServer(events) ==
    [i \in 1..Len(events) |->
        [events[i] EXCEPT !.metadata =
            IF events[i].metadata.defined THEN sanitizeMetadata(events[i].metadata)
            ELSE NoMetadata]]

\* The metadata trackEvent is called with.
Metadatas ==
    { NoMetadata,
      Metadata(<<Entry("riskCount", "number", "3"), Entry("duration", "number", "40")>>),
      Metadata(<<Entry("errorType", "string", "scan"), Entry("url", "string", "a.io/tos")>>),
      Metadata(<<Entry("domain", "string", "a.io"), Entry("Email", "string", "x")>>) }

\* trackEvent(eventType, metadata) up to its second await.
TrackWithMetadata ==
    /\ pc = "analytics"
    /\ tracker.pc = "idle"
    /\ tracked < MaxEvents
    /\ tracked' = tracked + 1
    /\ \E metadata \in Metadatas :
           tracker' = [pc |-> "storing", settings |-> settings,
                       event |-> AnalyticsEvent(tracked + 1, settings.sessionId, metadata)]
    /\ UNCHANGED <<pc, analysisVars, callVars, llmVars, usageVars, contentVars, settings, localEvents,
                   inbox, analyticsQueue, flusher, updater, sent, historyVars, interceptVars, backendVars>>

NextMetadata ==
    \/ TrackWithMetadata
    \/ TrackStore
    \/ QueueAnalyticsEvent
    \/ \E f \in Flushers : FlushStart(f)
    \/ \E f \in Flushers : FlushRead(f)
    \/ \E f \in Flushers : FlushCheck(f)
    \/ \E f \in Flushers : FlushDone(f)

SpecMetadata == InitAnalytics /\ [][NextMetadata]_vars

\* Metadata as the analytics service promises to transmit it: none of the
\* keys url, email, name, phone, content, text, and no domain string.
Anonymized(metadata) ==
    \A i \in 1..Len(metadata.entries) :
        /\ ToLowerCase(metadata.entries[i].key) \notin SensitiveKeys
        /\ ~(metadata.entries[i].key = "domain" /\ metadata.entries[i].type = "string")

C21_SendEventsToServerAnonymizes ==
    /\ \A i \in 1..Len(analyticsQueue) :
           Anonymized(sendEventsToServer(analyticsQueue)[i].metadata)
    /\ sanitizeMetadata(Metadata(<<Entry("domain", "string", "a.io")>>))
           = Metadata(<<Entry("domainHash", "string", "1qyfn")>>)

\* ---------------------------------------------------------------------
\* The content script's init (content/index.ts): settings are read once,
\* and a disabled extension or a whitelisted hostname ends init before the
\* SCAN_PAGE listener and the auto-scan timer are set up.
\* ---------------------------------------------------------------------

LoadingScript ==
    [pc |-> "loading", settings |-> DEFAULT_SETTINGS, listening |-> FALSE,
     timer |-> FALSE, notified |-> FALSE]

\* The settings the options page can have stored.
SettingsChoices ==
    {Settings(enabled, autoScan, whitelist) :
        enabled \in BOOLEAN, autoScan \in BOOLEAN, whitelist \in {{}, {"a.io"}}}

\* ShouldRun_EnabledOnly: an init that does not look at the whitelist.
ShouldRun_EnabledOnly(stored, hostname) == stored.enabled

\* init's two early returns, negated.
ShouldRun(stored, hostname) ==
    /\ stored.enabled
    /\ hostname \notin stored.whitelist

\* The usage stored when the pages load: one free scan is left this month.
LoadedUsage == Usage(FREE_SCANS_PER_MONTH - 1, 0, "free", "")

InitContent ==
    /\ pc = "usage"
    /\ IdleAnalysis
    /\ IdleCalls
    /\ IdleLLM
    /\ IdleBackend
    /\ IdleIntercept
    /\ IdleHistory
    /\ IdleAnalytics
    /\ usage = LoadedUsage
    /\ scanPc = [p \in Tabs |-> "idle"]
    /\ held = [p \in Tabs |-> DEFAULT_USAGE]
    /\ outcome = [p \in Tabs |-> "none"]
    /\ got = NoCall
    /\ advances = 0
    /\ granted = 0
    /\ userSettings \in SettingsChoices
    /\ script = [p \in Tabs |-> LoadingScript]

\* init, resumed with the settings getSettings read.
ContentInit(p) ==
    /\ pc = "usage"
    /\ script[p].pc = "loading"
    /\ script' = [script EXCEPT ![p] =
                     IF ShouldRun(userSettings, Hostname[p])
                     THEN [pc |-> "ready", settings |-> userSettings, listening |-> TRUE,
                           timer |-> userSettings.autoScan, notified |-> FALSE]
                     ELSE [pc |-> "off", settings |-> userSettings, listening |-> FALSE,
                           timer |-> FALSE, notified |-> FALSE]]
    /\ UNCHANGED <<pc, analysisVars, callVars, llmVars, usageVars, analyticsVars, userSettings, historyVars, interceptVars, backendVars>>

\* The auto-scan timer fires: autoDetectAndNotify sends AGREEMENT_DETECTED when
\* an agreement is detected with confidence 0.5 or more.
AutoDetectAndNotify(p) ==
    /\ pc = "usage"
    /\ script[p].timer
    /\ \E detected \in BOOLEAN :
           script' = [script EXCEPT ![p].timer = FALSE, ![p].notified = detected]
    /\ UNCHANGED <<pc, analysisVars, callVars, llmVars, usageVars, analyticsVars, userSettings, historyVars, interceptVars, backendVars>>

\* The options page stores other settings; running content scripts do not
\* read them again.
SaveSettings ==
    /\ pc = "usage"
    /\ \E stored \in SettingsChoices :
           /\ stored # userSettings
           /\ userSettings' = stored
    /\ UNCHANGED <<pc, analysisVars, callVars, llmVars, usageVars, analyticsVars, script, historyVars, interceptVars, backendVars>>

NextContent ==
    \/ \E p \in Tabs : ContentInit(p)
    \/ \E p \in Tabs : AutoDetectAndNotify(p)
    \/ SaveSettings
    \/ \E p \in Tabs : ScanCheck(p)
    \/ \E p \in Tabs : IncrementRead(p)
    \/ \E p \in Tabs : IncrementWrite(p)
    \/ \E p \in Tabs : ScanReport(p)

SpecContent == InitContent /\ [][NextContent]_vars

\* init found the extension disabled or the page's hostname whitelisted.
InitSkipped(p) ==
    /\ script[p].pc # "loading"
    /\ \/ ~script[p].settings.enabled
       \/ Hostname[p] \in script[p].settings.whitelist

\* C22: on a page whose hostname is whitelisted, or with the extension
\* disabled, at content-script initialisation, the content script never
\* scans: no SCAN_PAGE listener, no AGREEMENT_DETECTED, no scanPage call (so no
\* SCAN_COMPLETE), and no read or write of the usage by that page; when no
\* page runs, the stored usage stays as it was.
C22_SkippedPageNeverScans ==
    /\ \A p \in Tabs :
           InitSkipped(p) =>
               /\ ~script[p].listening
               /\ ~script[p].timer
               /\ ~script[p].notified
               /\ scanPc[p] = "idle"
               /\ outcome[p] = "none"
               /\ held[p] = DEFAULT_USAGE
               /\ got.by # p
    /\ (\A p \in Tabs : InitSkipped(p)) => usage = LoadedUsage

\* Witness of C22: a.io is whitelisted when both tabs initialise; tab1 (a.io)
\* is skipped while tab2 (b.io) has detected an agreement and completed a scan,
\* and the whitelist has been emptied since.
C22_Witness ==
    /\ InitSkipped("tab1")
    /\ script["tab1"].settings.enabled
    /\ ~InitSkipped("tab2")
    /\ script["tab2"].notified
    /\ outcome["tab2"] = "ScanResult"
    /\ usage.scansThisMonth = FREE_SCANS_PER_MONTH
    /\ userSettings.whitelist = {}

\* ---------------------------------------------------------------------
\* Scan history: handleScanComplete and getScanHistory (background/index.ts).
\* Scans are numbered in the order their SCAN_COMPLETE messages arrive;
\* scans stored before the model starts have the numbers 0, -1, -2, ...
\* ---------------------------------------------------------------------

HISTORY_LIMIT == 50
MaxCompleted == 3

\* A stored history of n earlier scans, newest first.
PastScans(n) == [i \in 1..n |-> 1 - i]

\* Array.prototype.slice(0, end).
Slice(list, end) == SubSeq(list, 1, Min(Len(list), end))

InitHistory ==
    /\ pc = "history"
    /\ IdleAnalysis
    /\ IdleCalls
    /\ IdleLLM
    /\ IdleBackend
    /\ IdleIntercept
    /\ IdleUsage
    /\ IdleAnalytics
    /\ IdleContent
    /\ scanHistory \in {PastScans(0), PastScans(HISTORY_LIMIT - 1), PastScans(HISTORY_LIMIT)}
    /\ completed = 0
    /\ completer = [h \in Handlers |-> IdleHandler]
    /\ badge = 0

\* A SCAN_COMPLETE message arrives: handleScanComplete up to
\* "await getCurrentTabId()".
ScanComplete(h) ==
    /\ pc = "history"
    /\ completer[h].pc = "idle"
    /\ completed < MaxCompleted
    /\ completed' = completed + 1
    /\ completer' = [completer EXCEPT ![h] = [pc |-> "tab", result |-> completed + 1,
                                              history |-> <<>>]]
    /\ UNCHANGED <<pc, analysisVars, callVars, llmVars, usageVars, analyticsVars, contentVars,
                   scanHistory, badge, interceptVars, backendVars>>

\* getCurrentTabId has answered: the badge is set when there is an active
\* tab, and getScanHistory's read is issued.
SetBadge(h) ==
    /\ pc = "history"
    /\ completer[h].pc = "tab"
    /\ \E tabId \in BOOLEAN : badge' = IF tabId THEN completer[h].result ELSE badge
    /\ completer' = [completer EXCEPT ![h].pc = "reading"]
    /\ UNCHANGED <<pc, analysisVars, callVars, llmVars, usageVars, analyticsVars, contentVars,
                   scanHistory, completed, interceptVars, backendVars>>

\* getScanHistory has answered: the result is put first and the list is cut
\* to 50; the write is issued.
HistoryRead(h) ==
    /\ pc = "history"
    /\ completer[h].pc = "reading"
    /\ completer' = [completer EXCEPT
                        ![h].pc = "writing",
                        ![h].history = Slice(<<completer[h].result>> \o scanHistory,
                                             HISTORY_LIMIT)]
    /\ UNCHANGED <<pc, analysisVars, callVars, llmVars, usageVars, analyticsVars, contentVars,
                   scanHistory, completed, badge, interceptVars, backendVars>>

\* chrome.storage.local.set of trimmedHistory takes effect.
HistoryWrite(h) ==
    /\ pc = "history"
    /\ completer[h].pc = "writing"
    /\ scanHistory' = completer[h].history
    /\ completer' = [completer EXCEPT ![h] = IdleHandler]
    /\ UNCHANGED <<pc, analysisVars, callVars, llmVars, usageVars, analyticsVars, contentVars,
                   completed, badge, interceptVars, backendVars>>

NextHistory ==
    \/ \E h \in Handlers : ScanComplete(h)
    \/ \E h \in Handlers : SetBadge(h)
    \/ \E h \in Handlers : HistoryRead(h)
    \/ \E h \in Handlers : HistoryWrite(h)

SpecHistory == InitHistory /\ [][NextHistory]_vars

\* The stored history holds at most 50 scans, newest first, among them the
\* min(completed, 50) most recent of the completed scans.
LastFiftyNewestFirst ==
    /\ Len(scanHistory) <= HISTORY_LIMIT
    /\ \A i \in 1..(Len(scanHistory) - 1) : scanHistory[i] > scanHistory[i + 1]
    /\ Len(scanHistory) >= Min(completed, HISTORY_LIMIT)
    /\ \A k \in 1..Min(completed, HISTORY_LIMIT) : scanHistory[k] = completed - k + 1

\* C23: after any sequence of SCAN_COMPLETE messages (every handleScanComplete
\* has ended) the stored history has at most 50 entries, newest first, and
\* contains the min(n, 50) most recent of the n completed scans, also when two
\* handleScanComplete calls overlap.
C23_HistoryKeepsLastFifty ==
    (\A h \in Handlers : completer[h].pc = "idle") => LastFiftyNewestFirst

\* What the code does keep: the history never has more than 50 entries, and
\* when each SCAN_COMPLETE arrives after the previous handleScanComplete has
\* ended, it holds the most recent scans, newest first.
C23_AtMostFifty == Len(scanHistory) <= HISTORY_LIMIT

NextHistorySequential ==
    \/ \E h \in Handlers :
           /\ \A other \in Handlers : completer[other].pc = "idle"
           /\ ScanComplete(h)
    \/ \E h \in Handlers : SetBadge(h)
    \/ \E h \in Handlers : HistoryRead(h)
    \/ \E h \in Handlers : HistoryWrite(h)

SpecHistorySequential == InitHistory /\ [][NextHistorySequential]_vars

C23_SequentialHistory ==
    (\A h \in Handlers : completer[h].pc = "idle") => LastFiftyNewestFirst

\* ---------------------------------------------------------------------
\* Frame of scanPage on the stored usage (SpecUsage).
\* ---------------------------------------------------------------------

\* One step of a scanPage call leaves the counter of the current month as it
\* was (a month that has just changed counts from 0), starts no analysis when
\* it ends with LIMIT_REACHED or NO_AGREEMENT, and raises the counter by 1 when
\* it is the write of a call that returns a ScanResult; a paid user is never
\* answered LIMIT_REACHED.
ScanPageFrame ==
    \A p \in Tabs :
        /\ (scanPc[p] = "idle" /\ got' # got /\ got'.by = p /\
            outcome'[p] \in {"LIMIT_REACHED", "NO_AGREEMENT"})
               => /\ usage'.scansThisMonth = getUsage(usage, now).scansThisMonth
                  /\ scanPc'[p] = "idle"
                  /\ held' = held
        /\ (scanPc[p] = "writing" /\ scanPc'[p] = "reporting")
               => usage'.scansThisMonth = usage.scansThisMonth + 1
        /\ (usage.tier = "paid" /\ outcome'[p] # outcome[p])
               => outcome'[p] # "LIMIT_REACHED"

\* C24: a scanPage call that ends with LIMIT_REACHED or NO_AGREEMENT leaves the
\* stored scansThisMonth unchanged and performs no risk analysis, a call that
\* returns a ScanResult increases scansThisMonth by exactly 1, and a paid-tier
\* user never receives LIMIT_REACHED.
C24_ScanPageFrame == [][ScanPageFrame]_vars

\* What the code does keep: a call that ends with LIMIT_REACHED or
\* NO_AGREEMENT writes nothing but getUsage's monthly reset, a paid user is
\* never answered LIMIT_REACHED, and the write of a call that returns a
\* ScanResult stores the count its incrementUsage read, plus 1.
C24_WritesWhatItReadPlusOne ==
    [][ \A p \in Tabs :
          /\ (scanPc[p] = "idle" /\ got' # got /\ got'.by = p /\
              outcome'[p] \in {"LIMIT_REACHED", "NO_AGREEMENT"})
                 => /\ usage' = getUsage(usage, now)
                    /\ scanPc'[p] = "idle"
          /\ (scanPc[p] = "writing" /\ scanPc'[p] = "reporting")
                 => usage'.scansThisMonth = held[p].scansThisMonth + 1
          /\ (usage.tier = "paid" /\ outcome'[p] # outcome[p])
                 => outcome'[p] # "LIMIT_REACHED" ]_vars

\* ---------------------------------------------------------------------
\* The click interceptor (content/interceptor.ts): handleInterceptedClick,
\* showWarningModal, triggerOriginalAction, setInterceptorEnabled.
\* ---------------------------------------------------------------------

MaxClicks == 2

\* The elements setupInterceptors has registered.
Triggers == {"agree", "signup"}

\* The page texts extractAgreementText returns.
PageTexts ==
    { "It has issues. ",
      "Binding Arbitration applies. ",
      "You waive any claims, no refunds apply. " }

\* A user's click on a trigger: whether handleInterceptedClick prevented it,
\* its modal ("none", "open", "proceeded", "cancelled"), how often
\* triggerOriginalAction dispatched a click for it, how often a click reached
\* the page, whether a dispatched click was intercepted again, and the last
\* setInterceptorEnabled argument at the time of the click.
Click(trigger, intercepted, modal, delivered) ==
    [trigger |-> trigger, intercepted |-> intercepted, modal |-> modal, dispatched |-> 0,
     delivered |-> delivered, reintercepted |-> FALSE, byUser |-> userEnabled]

\* element.dispatchEvent(clickEvent): the capture listener runs
\* handleInterceptedClick again, which lets the click reach the page only
\* when state.isEnabled is false.
DispatchEvent(click, enabled) ==
    [click EXCEPT !.dispatched = @ + 1,
                  !.delivered = IF enabled THEN @ ELSE @ + 1,
                  !.reintercepted = @ \/ enabled]

\* triggerOriginalAction_KeepsEnabled: a re-dispatch with the interceptor left on.
triggerOriginalAction_KeepsEnabled(log, k) ==
    /\ isEnabled' = isEnabled
    /\ clicks' = [log EXCEPT ![k] = DispatchEvent(log[k], isEnabled)]
    /\ timers' = timers + 1

\* triggerOriginalAction for click k of the log: the interceptor is switched
\* off, the click is dispatched, and a timeout is set to switch it on again.
triggerOriginalAction(log, k) ==
    /\ isEnabled' = FALSE
    /\ clicks' = [log EXCEPT ![k] = DispatchEvent(log[k], FALSE)]
    /\ timers' = timers + 1

InitIntercept ==
    /\ pc = "intercept"
    /\ text \in PageTexts
    /\ frags = 0
    /\ now = 0
    /\ risks = <<>>
    /\ result = NoResult
    /\ score = 0
    /\ industry = "default"
    /\ overall = "low"
    /\ warnings = <<>>
    /\ comparison = NoResult
    /\ IdleCalls
    /\ IdleLLM
    /\ IdleBackend
    /\ IdleUsage
    /\ IdleAnalytics
    /\ IdleContent
    /\ IdleHistory
    /\ IdleIntercept

\* The user clicks a trigger: handleInterceptedClick.
UserClick(e) ==
    /\ pc = "intercept"
    /\ Len(clicks) < MaxClicks
    /\ \A k \in 1..Len(clicks) : ~(clicks[k].trigger = e /\ clicks[k].modal = "open")
    /\ IF ~isEnabled
       THEN /\ clicks' = Append(clicks, Click(e, FALSE, "none", 1))
            /\ UNCHANGED <<isEnabled, timers, result>>
       ELSE LET scanResult == analyzeRisksEnhanced(text, now)
            IN  /\ result' = scanResult
                /\ IF Len(scanResult.risks) = 0
                   THEN triggerOriginalAction(Append(clicks, Click(e, TRUE, "none", 0)),
                                              Len(clicks) + 1)
                   ELSE /\ clicks' = Append(clicks, Click(e, TRUE, "open", 0))
                        /\ UNCHANGED <<isEnabled, timers>>
    /\ UNCHANGED <<pc, text, frags, now, risks, score, industry, overall, warnings, comparison,
                   callVars, llmVars, usageVars, analyticsVars, contentVars, historyVars,
                   userEnabled, backendVars>>

\* The user presses the modal's proceed button: the modal is removed and
\* onProceed calls triggerOriginalAction.
Proceed(k) ==
    /\ pc = "intercept"
    /\ k \in 1..Len(clicks)
    /\ clicks[k].modal = "open"
    /\ triggerOriginalAction([clicks EXCEPT ![k].modal = "proceeded"], k)
    /\ UNCHANGED <<pc, analysisVars, callVars, llmVars, usageVars, analyticsVars, contentVars,
                   historyVars, userEnabled, backendVars>>

\* The user presses "Review Agreement" or clicks the overlay: the modal is
\* removed and onCancel does nothing.
Cancel(k) ==
    /\ pc = "intercept"
    /\ k \in 1..Len(clicks)
    /\ clicks[k].modal = "open"
    /\ clicks' = [clicks EXCEPT ![k].modal = "cancelled"]
    /\ UNCHANGED <<pc, analysisVars, callVars, llmVars, usageVars, analyticsVars, contentVars,
                   historyVars, isEnabled, userEnabled, timers, backendVars>>

\* A timeout of triggerOriginalAction fires, 100 ms after the dispatch.
ReEnable ==
    /\ pc = "intercept"
    /\ timers > 0
    /\ timers' = timers - 1
    /\ isEnabled' = TRUE
    /\ UNCHANGED <<pc, analysisVars, callVars, llmVars, usageVars, analyticsVars, contentVars,
                   historyVars, userEnabled, clicks, backendVars>>

\* setInterceptorEnabled(enabled).
SetInterceptorEnabled ==
    /\ pc = "intercept"
    /\ \E enabled \in BOOLEAN :
           /\ enabled # userEnabled
           /\ isEnabled' = enabled
           /\ userEnabled' = enabled
    /\ UNCHANGED <<pc, analysisVars, callVars, llmVars, usageVars, analyticsVars, contentVars,
                   historyVars, timers, clicks, backendVars>>

NextIntercept ==
    \/ \E e \in Triggers : UserClick(e)
    \/ \E k \in 1..MaxClicks : Proceed(k)
    \/ \E k \in 1..MaxClicks : Cancel(k)
    \/ ReEnable
    \/ SetInterceptorEnabled

SpecIntercept == InitIntercept /\ [][NextIntercept]_vars

\* Below, result is the scanResult of the page text: every intercepted click
\* analyses the same text.

\* C25: whenever analyzeRisksEnhanced yields overallSeverity high or critical
\* for the page text, a click on a registered trigger with the interceptor
\* enabled shows the warning modal before the original action is delivered;
\* the click is let through without a modal only when the analysis reports no
\* risk signal (no finding, no red flag, no combination warning).
C25_HighSeverityShowsModal ==
    \A k \in 1..Len(clicks) :
        clicks[k].intercepted =>
            /\ result.overallSeverity \in {"high", "critical"} => clicks[k].modal # "none"
            /\ clicks[k].modal = "none"
                   => /\ result.risks = <<>>
                      /\ result.redFlags = <<>>
                      /\ result.combinationWarnings = <<>>

\* What the code does keep: an intercepted click gets a modal exactly when
\* the analysis has at least one finding.
C25_ModalIffFindings ==
    \A k \in 1..Len(clicks) :
        clicks[k].intercepted =>
            (clicks[k].modal = "none" <=> result.risks = <<>>)

\* C26: after an intercepted click the original click action is dispatched
\* exactly once when the user confirms Proceed or when the analysis has no
\* findings, the dispatched click is not intercepted again and reaches the
\* page, and no click is dispatched while the modal is open or after the user
\* cancelled or closed it.
C26_DispatchedOnceOnProceed ==
    \A k \in 1..Len(clicks) :
        clicks[k].intercepted =>
            /\ ~clicks[k].reintercepted
            /\ IF clicks[k].modal \in {"proceeded", "none"}
               THEN clicks[k].dispatched = 1 /\ clicks[k].delivered = 1
               ELSE clicks[k].dispatched = 0 /\ clicks[k].delivered = 0

\* Witness of C26: on a page with findings one click was confirmed with
\* Proceed and dispatched once, another was cancelled and never dispatched.
C26_Witness ==
    /\ Len(clicks) = 2
    /\ clicks[1].intercepted /\ clicks[1].modal = "proceeded" /\ clicks[1].dispatched = 1
    /\ clicks[2].intercepted /\ clicks[2].modal = "cancelled" /\ clicks[2].dispatched = 0
    /\ result.risks # <<>>

\* C27: after setInterceptorEnabled(false), state.isEnabled stays false and no
\* click is intercepted until setInterceptorEnabled(true) is called, also when
\* a modal opened earlier is then confirmed and the delayed re-enable fires.
C27_StaysDisabled ==
    /\ ~userEnabled => ~isEnabled
    /\ \A k \in 1..Len(clicks) : ~clicks[k].byUser => ~clicks[k].intercepted

\* What the code does keep: with no re-enable timeout pending or fired since,
\* setInterceptorEnabled(false) holds: a click made right after the call is
\* not intercepted.
C27_DisabledUntilTimeout ==
    [][ (userEnabled /\ ~userEnabled') => ~isEnabled' ]_vars

\* C28: while the interceptor has not been disabled through
\* setInterceptorEnabled, a user click on a registered trigger of a page whose
\* analysis has at least one finding is never delivered to the page without
\* the warning modal having been shown for that click, also within the 100 ms
\* after another trigger's original action was re-dispatched.
C28_NoUnwarnedDelivery ==
    \A k \in 1..Len(clicks) :
        (clicks[k].byUser /\ clicks[k].delivered > 0 /\ Len(analyzeRisks(text, now)) > 0)
            => clicks[k].modal = "proceeded"

\* What the code does keep: a click made while state.isEnabled is true is
\* delivered only through its modal's Proceed when the page has findings.
C28_InterceptedClicksAreWarned ==
    \A k \in 1..Len(clicks) :
        (clicks[k].intercepted /\ clicks[k].delivered > 0 /\ result.risks # <<>>)
            => clicks[k].modal = "proceeded"

\* ---------------------------------------------------------------------
\* The background's analytics queue while analytics stays enabled:
\* queueAnalyticsEvent and overlapping flushAnalyticsQueue calls.
\* ---------------------------------------------------------------------

\* n events tracked and queued earlier, in enqueue order (ids 1 - n .. 0).
QueuedEarlier(n) == [i \in 1..n |-> AnalyticsEvent(i - n, 1, NoMetadata)]

InitQueue ==
    /\ pc = "analytics"
    /\ IdleAnalysis
    /\ IdleCalls
    /\ IdleLLM
    /\ IdleBackend
    /\ IdleUsage
    /\ IdleContent
    /\ IdleHistory
    /\ IdleIntercept
    /\ settings = DefaultAnalyticsSettings
    /\ \E n \in {0, ANALYTICS_BATCH_SIZE - 1} :
           /\ analyticsQueue = QueuedEarlier(n)
           /\ localEvents = QueuedEarlier(n)
    /\ tracked = 0
    /\ tracker = IdleTracker
    /\ inbox = <<>>
    /\ flusher = [f \in Flushers |-> IdleFlusher]
    /\ updater = IdleUpdater
    /\ sent = {}

NextQueue ==
    \/ TrackRead
    \/ TrackStore
    \/ QueueAnalyticsEvent
    \/ \E f \in Flushers : FlushStart(f)
    \/ \E f \in Flushers : FlushRead(f)
    \/ \E f \in Flushers : FlushCheck(f)
    \/ \E f \in Flushers : FlushDone(f)

SpecQueue == InitQueue /\ [][NextQueue]_vars

EventIds(events) == {events[i].id : i \in 1..Len(events)}

\* Ids of the events some flush has posted and not yet heard about.
InFlightIds == UNION {EventIds(flusher[f].eventsToSend) : f \in Flushers}

\* No queued event is lost (it is in the queue, in a running send, or was
\* posted) and none is held twice.
NoLossNoDuplicate ==
    /\ \A id \in EventIds(localEvents) \ EventIds(inbox) :
           \/ id \in EventIds(analyticsQueue)
           \/ id \in InFlightIds
           \/ \E posted \in sent : posted.event.id = id
    /\ Cardinality(EventIds(analyticsQueue)) = Len(analyticsQueue)
    /\ \A f \in Flushers : EventIds(flusher[f].eventsToSend) \cap EventIds(analyticsQueue) = {}
    /\ \A f, g \in Flushers :
           f # g => EventIds(flusher[f].eventsToSend) \cap EventIds(flusher[g].eventsToSend) = {}

\* The queue holds its events in the order they were enqueued.
InEnqueueOrder ==
    \A i \in 1..(Len(analyticsQueue) - 1) : analyticsQueue[i].id < analyticsQueue[i + 1].id

\* An event whose push makes the queue 20 long starts a flush; a send that
\* succeeds leaves the queue as it is, one that fails puts its batch back in
\* front of the queue.
QueueSteps ==
    /\ (inbox' # inbox /\ Len(analyticsQueue') > Len(analyticsQueue)
            /\ Len(analyticsQueue') >= ANALYTICS_BATCH_SIZE)
           => \E f \in Flushers : flusher[f].pc = "idle" /\ flusher'[f].pc = "reading"
    /\ \A f \in Flushers :
           (flusher[f].pc = "sending" /\ flusher'[f].pc = "idle")
               => \/ analyticsQueue' = analyticsQueue
                  \/ analyticsQueue' = flusher[f].eventsToSend \o analyticsQueue

\* C29: while analytics is enabled the background queue neither loses nor
\* duplicates events: a queue of 20 or more events triggers an immediate
\* flush, a successful send removes exactly the sent batch, and after a failed
\* send every event of the batch is back in analyticsQueue exactly once, ahead
\* of the events queued during the send, with all events in their original
\* enqueue order even when two flushes overlap.
C29_QueueKeepsEventsInOrder ==
    [][QueueSteps /\ NoLossNoDuplicate' /\ InEnqueueOrder']_vars

\* What the code does keep: no loss, no duplicate, the flush at 20 events and
\* the re-queue in front; only the order across two overlapping flushes is
\* not kept.
C29_QueueKeepsEvents == [][QueueSteps /\ NoLossNoDuplicate']_vars

\* ---------------------------------------------------------------------
\* The backend: the Stripe webhook's subscription events and
\* POST /api/subscription/verify.
\* ---------------------------------------------------------------------
MaxSubscriptions == 2   \* checkout sessions completed in a run
MaxEpoch == 1           \* the backend's clock runs from 0 to MaxEpoch

\* Stripe's subscription statuses the webhook copies.
StripeStatuses == {"active", "past_due"}

Subscription(userId, stripeSubscriptionId, status, currentPeriodEnd) ==
    [userId |-> userId, stripeSubscriptionId |-> stripeSubscriptionId,
     status |-> status, currentPeriodEnd |-> currentPeriodEnd]

\* Array.prototype.findIndex over db.data.subscriptions; 0 stands for -1.
\* The argument is the set of the indices whose subscription matches.
FindSubscriptionIndex(matching) ==
    IF matching = {} THEN 0 ELSE CHOOSE i \in matching : \A j \in matching : i <= j

VerifyResponse(licenseKey, status, valid, error) ==
    [request |-> 1 - verified.request, licenseKey |-> licenseKey, status |-> status,
     valid |-> valid, error |-> error]

\* The answer of POST /verify: the user is found by the license key, the
\* subscription is the first one of that user, and only its period's end is
\* looked at.
verify(licenseKey) ==
    IF licenseKey = 0
    THEN VerifyResponse(licenseKey, 400, FALSE, "License key required")
    ELSE IF ~\E u \in UserIds : users[u].licenseKey = licenseKey
    THEN VerifyResponse(licenseKey, 200, FALSE, "Invalid license key")
    ELSE LET user == CHOOSE u \in UserIds : users[u].licenseKey = licenseKey
             found == FindSubscriptionIndex({i \in 1..Len(subscriptions) : subscriptions[i].userId = user})
         IN  IF found # 0 /\ subscriptions[found].currentPeriodEnd < epoch
             THEN VerifyResponse(licenseKey, 200, FALSE, "Subscription expired")
             ELSE VerifyResponse(licenseKey, 200, TRUE, "")

InitBackend ==
    /\ pc = "backend"
    /\ IdleAnalysis
    /\ IdleCalls
    /\ IdleLLM
    /\ IdleUsage
    /\ IdleAnalytics
    /\ IdleContent
    /\ IdleHistory
    /\ IdleIntercept
    /\ IdleBackend

\* The webhook's checkout.session.completed for a session of a registered
\* user: a fresh license key for the user and a new subscription record.
CheckoutCompleted ==
    /\ pc = "backend"
    /\ Len(subscriptions) < MaxSubscriptions
    /\ \E userId \in UserIds, currentPeriodEnd \in 0..(MaxEpoch - 1) :
           LET issued == Len(subscriptions) + 1
           IN  /\ users' = IF userId \in UserIds
                           THEN [users EXCEPT ![userId] = User("paid", issued)]
                           ELSE users
               /\ subscriptions' = Append(subscriptions,
                                      Subscription(userId, issued, "active", currentPeriodEnd))
    /\ UNCHANGED <<pc, analysisVars, callVars, llmVars, usageVars, analyticsVars, contentVars, historyVars, interceptVars, epoch, verified>>

\* The webhook's customer.subscription.updated.
SubscriptionUpdated ==
    /\ pc = "backend"
    /\ \E id \in 1..MaxSubscriptions, status \in StripeStatuses, currentPeriodEnd \in 0..(MaxEpoch - 1) :
           LET subIndex == FindSubscriptionIndex({i \in 1..Len(subscriptions) :
                                                     subscriptions[i].stripeSubscriptionId = id})
           IN  /\ subIndex # 0
               /\ subscriptions' = [subscriptions EXCEPT
                                       ![subIndex].status = status,
                                       ![subIndex].currentPeriodEnd = currentPeriodEnd]
    /\ UNCHANGED <<pc, analysisVars, callVars, llmVars, usageVars, analyticsVars, contentVars, historyVars, interceptVars, users, epoch, verified>>

\* The webhook's customer.subscription.deleted: the subscription becomes
\* canceled and its user free; the license key stays.
SubscriptionDeleted ==
    /\ pc = "backend"
    /\ \E id \in 1..MaxSubscriptions :
           LET subIndex == FindSubscriptionIndex({i \in 1..Len(subscriptions) :
                                                     subscriptions[i].stripeSubscriptionId = id})
           IN  /\ subIndex # 0
               /\ subscriptions' = [subscriptions EXCEPT ![subIndex].status = "canceled"]
               /\ users' = IF subscriptions[subIndex].userId \in UserIds
                           THEN [users EXCEPT ![subscriptions[subIndex].userId].tier = "free"]
                           ELSE users
    /\ UNCHANGED <<pc, analysisVars, callVars, llmVars, usageVars, analyticsVars, contentVars, historyVars, interceptVars, epoch, verified>>

\* POST /api/subscription/verify.
Verify ==
    /\ pc = "backend"
    /\ \E licenseKey \in 0..MaxSubscriptions : verified' = verify(licenseKey)
    /\ UNCHANGED <<pc, analysisVars, callVars, llmVars, usageVars, analyticsVars, contentVars, historyVars, interceptVars, users, subscriptions, epoch>>

\* A second passes.
BackendTick ==
    /\ pc = "backend"
    /\ epoch < MaxEpoch
    /\ epoch' = epoch + 1
    /\ UNCHANGED <<pc, analysisVars, callVars, llmVars, usageVars, analyticsVars, contentVars, historyVars, interceptVars, users, subscriptions, verified>>

NextBackend ==
    \/ CheckoutCompleted
    \/ SubscriptionUpdated
    \/ SubscriptionDeleted
    \/ Verify
    \/ BackendTick

SpecBackend == InitBackend /\ [][NextBackend]_vars

\* The users that hold the license key.
HoldersOf(licenseKey) == {u \in UserIds : users[u].licenseKey = licenseKey}

SubscriptionsOf(u) == {subscriptions[i] : i \in {j \in 1..Len(subscriptions) : subscriptions[j].userId = u}}

\* The user has a subscription that is active and whose period has not ended.
HasActiveSubscription(u) ==
    \E s \in SubscriptionsOf(u) : s.status = "active" /\ s.currentPeriodEnd >= epoch

\* The user's subscription was deleted: tier free, a canceled subscription and
\* no other one.
Canceled(u) ==
    /\ users[u].tier = "free"
    /\ SubscriptionsOf(u) # {}
    /\ \A s \in SubscriptionsOf(u) : s.status = "canceled"

\* C30: once customer.subscription.deleted has been processed for a user's
\* subscription (status canceled, tier free), every later verify with that
\* user's license key answers valid: false; verify answers valid: true only
\* for a license key whose user has an active, unexpired subscription.
C30_VerifyFollowsSubscription ==
    [][verified'.request # verified.request =>
          /\ \A u \in HoldersOf(verified'.licenseKey) : Canceled(u) => ~verified'.valid
          /\ verified'.valid =>
                 \E u \in HoldersOf(verified'.licenseKey) : HasActiveSubscription(u)]_vars

\* What verify does check: it answers valid: true only for a license key some
\* user holds, and never when the period of that user's first subscription
\* has ended.
C30_VerifyChecksKeyAndPeriod ==
    [][(verified'.request # verified.request /\ verified'.valid) =>
          \E u \in HoldersOf(verified'.licenseKey) :
              \A s \in SubscriptionsOf(u) :
                  (\A t \in SubscriptionsOf(u) : s.stripeSubscriptionId <= t.stripeSubscriptionId)
                      => s.currentPeriodEnd >= epoch]_vars

====
